---- MODULE Spec2Model ----
(*****************************************************************************)
(* Yue Discord bot (jairoegc/yue-discord-bot).                               *)
(*                                                                           *)
(* The model is one process of one of the four programs of the repository,   *)
(* from the start of the process to its exit:                                *)
(*   shared     : src/app.js, one global chat history and one long-term      *)
(*                memory;                                                    *)
(*   classifier : src/unnamed/part_002 (local pre-filter, cooldown,          *)
(*                classifier call), per-identity logs and memories;          *)
(*   contextual : src/unnamed/part_001 (cooldown, classifier call);          *)
(*   heuristic  : src/unnamed/part_000 (cooldown, keyword-or-continuity      *)
(*                gate, slow-response timer).                                *)
(*                                                                           *)
(* Next is every event of app.js and NextClassifier every event of a         *)
(* per-identity program: the two loads, the messageCreate handler with its   *)
(* awaits, the slow-response timer, the clock, the two save timers, the      *)
(* file writes, the signals, the shutdown path and the rejection of the      *)
(* login.  Any event can occur whenever the code lets it occur; handler      *)
(* invocations overlap at their awaits.                                      *)
(*                                                                           *)
(* What the environment does is the variable schedule, fixed when the        *)
(* process starts: how many messages arrive and how many handlers can be     *)
(* suspended at once, which instants the clock shows, how often each save    *)
(* timer fires, how many signals arrive and which gateway operations (the    *)
(* login among them) can reject.  The specifications differ in the files     *)
(* found at startup and in the schedules they admit:                         *)
(*   Spec         : app.js on full and young files.                          *)
(*   SpecPersist  : app.js with the save timers and signals.                 *)
(*   SpecStartup  : app.js on missing, broken and valid files.               *)
(*   SpecShutdown : app.js with a signal, under the fairness of the          *)
(*                  awaited steps of shutdown().                             *)
(*   SpecWatchdog : app.js with a clock that passes the 15 s timeout.        *)
(*   SpecReply    : app.js under the fairness of the awaited operations of   *)
(*                  a handler.                                               *)
(*   SpecIsolation: the per-identity programs on logs of two identities.     *)
(*   SpecGate     : any of the four programs.                                *)
(*   SpecBudget   : estimateTokens / optimizeTokenUsage as pure functions    *)
(*                  applied to bounded message lists.                        *)
(*                                                                           *)
(* A step of the model is one synchronous run of JavaScript between two      *)
(* awaits on external I/O (gateway, completion API, file system, timers).    *)
(*****************************************************************************)
EXTENDS Integers, Sequences, FiniteSets, TLC

VARIABLES
  deployment,       \* which program runs: "shared" (app.js), "classifier"
                    \* (part_002), "contextual" (part_001) or "heuristic"
                    \* (part_000)
  now,              \* Date.now(), in milliseconds
  chatHistory,      \* app.js:87   the array bound to chatHistory
  longTermMemory,   \* app.js:93   { knownUsers, summaries, facts }
  userCooldowns,    \* app.js:99   Map userId -> time of last reply
  isShuttingDown,   \* app.js:100
  pc,               \* position of each messageCreate handler invocation
  h,                \* locals of each handler invocation
  historyFile,      \* chat_history.json: what a read finds and the contents
  memoryFile,       \* long_term_memory.json, likewise
  histWrite,        \* fs.writeFile calls in flight on chat_history.json
  memWrite,         \* fs.writeFile calls in flight on long_term_memory.json
  timersActive,     \* historyInterval / memoryInterval not yet cleared
  shutdownPc,       \* position of the shutdown() call that passed its guard
  exitCode,         \* -1 while the process runs, else the process.exit code
  apiCalls,         \* number of completion-API requests issued
  startup,          \* app.js:676-680: position of the module
                    \* initialisation, and what the two reads find
  slowResponse,     \* app.js:635-652: slowResponseTimer, snailReaction and
                    \* the snail reaction of each handled message
  turnsSinceCondense, \* app.js: turns pushed onto the shared log since
                    \* condenseConversation last completed; -1 before that
  schedule,         \* what the environment of the process does in this run:
                    \* how many messages it delivers and how many handler
                    \* invocations it lets overlap, the instants at which
                    \* the clock is read, how often each save interval and
                    \* the signals fire, which gateway requests (the login
                    \* among them) may reject
  bMessages,        \* SpecBudget: the argument of optimizeTokenUsage
  bCeiling,         \* SpecBudget: the token ceiling in force
  bResult           \* SpecBudget: the value optimizeTokenUsage returned

vars == <<schedule, deployment, now, chatHistory, longTermMemory, userCooldowns, isShuttingDown,
          pc, h, historyFile, memoryFile, histWrite, memWrite, timersActive,
          shutdownPc, exitCode, apiCalls, turnsSinceCondense, startup,
          slowResponse, bMessages, bCeiling, bResult>>

botVars == <<schedule, deployment, now, chatHistory, longTermMemory, userCooldowns, isShuttingDown,
             pc, h, historyFile, memoryFile, histWrite, memWrite,
             timersActive, shutdownPc, exitCode, apiCalls,
             turnsSinceCondense, startup, slowResponse>>

budgetVars == <<bMessages, bCeiling, bResult>>

(***************************************************************************)
(* Program constants.                                                      *)
(***************************************************************************)
COOLDOWN_MS == 8000
MAX_HISTORY_LENGTH == 30
SUMMARY_INTERVAL == 15
MAX_TOKENS == 12000
\* app.js:452
THIRTY_SECONDS == 30000
\* app.js:601, the fixed fallback reply (abbreviated)
FALLBACK == <<"L", "o", " ", "s", "i", "e", "n", "t", "o">>

(***************************************************************************)
(* Bounds of the model.                                                    *)
(***************************************************************************)
MaxMsgs == 2
MaxSaves == 2
MaxSignals == 2
MaxList == 3
MaxTextLen == 9
MaxCeiling == 3

Msgs == 1..MaxMsgs

(***************************************************************************)
(* Inputs.  Text is a sequence of one-character strings, so that length,   *)
(* lower-casing, substring search, splitting and trimming are computed.    *)
(***************************************************************************)
\* app.js:636
TIMEOUT_MS == 15000

Tag(username) == <<username, "#0001">>

\* message.author.{id, bot, username, tag}, message.content,
\* message.mentions.has(discordClient.user.id)
MsgInputs ==
  { [id |-> "u1", bot |-> FALSE, username |-> "ana", tag |-> Tag("ana"),
     content |-> <<"Y", "u", "e", "?">>, mentions |-> FALSE],
    [id |-> "u1", bot |-> FALSE, username |-> "ana", tag |-> Tag("ana"),
     content |-> <<"h", "i">>, mentions |-> FALSE],
    [id |-> "u2", bot |-> FALSE, username |-> "bob", tag |-> Tag("bob"),
     content |-> <<"h", "i">>, mentions |-> TRUE],
    [id |-> "b1", bot |-> TRUE, username |-> "bot", tag |-> Tag("bot"),
     content |-> <<"y", "u", "e">>, mentions |-> FALSE] }

NoMsg == [id |-> "", bot |-> FALSE, username |-> "", tag |-> Tag(""),
          content |-> <<>>, mentions |-> FALSE]

\* Outcomes of one completion-API request: the promise rejects ("throw"),
\* resolves with an empty choices array ("empty"), resolves with a choice
\* that has no message ("malformed"), or resolves with
\* choices[0].message.content = text ("ok").
ApiFailures == { [kind |-> "throw", text |-> <<>>],
                 [kind |-> "empty", text |-> <<>>],
                 [kind |-> "malformed", text |-> <<>>] }
SummaryReplies ==
  { [kind |-> "ok", text |-> <<"s">>], [kind |-> "ok", text |-> <<"t">>] }
    \cup ApiFailures
FactReplies ==
  { [kind |-> "ok", text |-> <<"a", "\n", " ", "\n", " ", "b", " ">>] }
    \cup ApiFailures
GenReplies == { [kind |-> "ok", text |-> <<"r">>] } \cup ApiFailures

(***************************************************************************)
(* String helpers (String.prototype.toLowerCase / includes / split / trim) *)
(***************************************************************************)
LowerChar(c) ==
  CASE c = "Y" -> "y"
    [] c = "U" -> "u"
    [] c = "E" -> "e"
    [] c = "H" -> "h"
    [] OTHER -> c

KeepCase(s) == s

toLowerCase(s) == [i \in 1..Len(s) |-> LowerChar(s[i])]

includes(s, kw) ==
  \E i \in 1..(Len(s) - Len(kw) + 1) : SubSeq(s, i, i + Len(kw) - 1) = kw

\* Array.prototype.slice(-n)
SliceLast(s, n) == IF Len(s) <= n THEN s ELSE SubSeq(s, Len(s) - n + 1, Len(s))

IsSpace(c) == c \in {" ", "\n", "\t"}

RECURSIVE trimStart(_)
trimStart(s) ==
  IF s # <<>> /\ IsSpace(Head(s)) THEN trimStart(Tail(s)) ELSE s

RECURSIVE trimEnd(_)
trimEnd(s) ==
  IF s # <<>> /\ IsSpace(s[Len(s)]) THEN trimEnd(SubSeq(s, 1, Len(s) - 1))
  ELSE s

\* String.prototype.trim
trim(s) == trimEnd(trimStart(s))

RECURSIVE splitAcc(_, _, _, _, _)
splitAcc(s, sep, i, cur, acc) ==
  IF i > Len(s) THEN Append(acc, cur)
  ELSE IF s[i] = sep THEN splitAcc(s, sep, i + 1, <<>>, Append(acc, cur))
  ELSE splitAcc(s, sep, i + 1, Append(cur, s[i]), acc)

\* String.prototype.split(sep) for a one-character separator
split(s, sep) == splitAcc(s, sep, 1, <<>>, <<>>)

InSeq(x, s) == \E i \in 1..Len(s) : s[i] = x

RECURSIVE uniqueAcc(_, _)
uniqueAcc(s, acc) ==
  IF s = <<>> THEN acc
  ELSE uniqueAcc(Tail(s), IF InSeq(Head(s), acc) THEN acc
                          ELSE Append(acc, Head(s)))

\* [...new Set(s)]: first occurrences, in insertion order
unique(s) == uniqueAcc(s, <<>>)

(***************************************************************************)
(* Token estimator and context budgeter (app.js:112-136).                  *)
(***************************************************************************)
\* Math.floor in the place of Math.ceil
EstimateTokensFloor(text) == Len(text) \div 4

\* Math.ceil(text.length / 4)
estimateTokens(text) == (Len(text) + 3) \div 4

\* the test of app.js:130, with the ceiling as a parameter
OverBudgetNoLookahead(tokenCount, tokens, ceiling) == tokenCount > ceiling
OverBudgetOffByOne(tokenCount, tokens, ceiling) == tokenCount + tokens >= ceiling
OverBudget(tokenCount, tokens, ceiling) == tokenCount + tokens > ceiling

RECURSIVE optimizeLoop(_, _, _, _, _)
optimizeLoop(messages, ceiling, i, tokenCount, optimized) ==
  IF i < 1 THEN optimized
  ELSE LET tokens == estimateTokens(messages[i].content) IN
       IF OverBudget(tokenCount, tokens, ceiling) THEN optimized
       ELSE optimizeLoop(messages, ceiling, i - 1, tokenCount + tokens,
                         <<messages[i]>> \o optimized)

\* a budgeter that always keeps the first message of the list
optimizeKeepingFirst(messages, ceiling) ==
  IF messages = <<>> THEN <<>>
  ELSE <<Head(messages)>>
         \o optimizeLoop(Tail(messages), ceiling, Len(messages) - 1, 0, <<>>)

optimizeTokenUsageWith(messages, ceiling) ==
  optimizeLoop(messages, ceiling, Len(messages), 0, <<>>)

optimizeTokenUsage(messages) == optimizeTokenUsageWith(messages, MAX_TOKENS)

(***************************************************************************)
(* Turns, memory and condensation helpers.                                 *)
(***************************************************************************)
MAX_SUMMARIES == 3
MAX_FACTS == 10

UserTurn(msg, t) ==
  [role |-> "user", username |-> msg.tag, content |-> msg.content,
   timestamp |-> t]

AssistantTurn(text, t) ==
  [role |-> "assistant", content |-> text, timestamp |-> t]

\* app.js:239-250: the lines of conversationText (joined by "\n" in the code)
ConversationText(history) ==
  LET window == SliceLast(history, SUMMARY_INTERVAL) IN
  [i \in 1..Len(window) |->
     [name |-> IF window[i].role = "assistant" THEN <<"[Yue#1234]">>
               ELSE window[i].username,
      said |-> window[i].content]]

\* app.js:264
AddSummary(summaries, newSummary) ==
  SliceLast(Append(summaries, newSummary), MAX_SUMMARIES)

\* app.js:277-280
ParseFacts(text) ==
  LET lines == split(text, "\n")
      trimmed == [i \in 1..Len(lines) |-> trim(lines[i])]
  IN SelectSeq(trimmed, LAMBDA f : f # <<>>)

\* app.js:283-285
MergeFactsNoDedup(facts, newFacts) == SliceLast(facts \o newFacts, MAX_FACTS)

MergeFacts(facts, newFacts) == SliceLast(unique(facts \o newFacts), MAX_FACTS)

\* app.js:506-517
RegisterUser(knownUsers, userId, username) ==
  LET old == IF userId \in DOMAIN knownUsers THEN knownUsers[userId]
             ELSE [currentUsername |-> username, previousUsernames |-> <<>>]
      prev == IF InSeq(username, old.previousUsernames)
              THEN old.previousUsernames
              ELSE Append(old.previousUsernames, username)
  IN [id \in DOMAIN knownUsers \cup {userId} |->
        IF id = userId
        THEN [currentUsername |-> username, previousUsernames |-> prev]
        ELSE knownUsers[id]]

\* a store that writes the value under every key of the map
MapSetAll(map, key, value) ==
  [k \in DOMAIN map \cup {key} |-> value]

\* a store that forgets every other key of the map
MapSetOnly(map, key, value) == [k \in {key} |-> value]

\* Map.prototype.set
MapSet(map, key, value) ==
  [k \in DOMAIN map \cup {key} |-> IF k = key THEN value ELSE map[k]]

(***************************************************************************)
(* Response gate and cooldown (app.js:445-481, 616-624).                   *)
(***************************************************************************)
Keyword == <<"y", "u", "e">>

\* app.js:461-465, the turns of the shared log at most 30 s old
recentHistory(history, t) ==
  SelectSeq(history, LAMBDA msg : t - msg.timestamp <= THIRTY_SECONDS)

\* app.js:466: recentHistory is computed, but continuingConversation is
\* never set from it
continuingConversation == FALSE

shouldRespondWithContinuity(message) ==
  \/ message.mentions
  \/ Len(recentHistory(chatHistory, now)) > 0
  \/ includes(toLowerCase(message.content), Keyword)

shouldRespond(message) ==
  LET contentLower == toLowerCase(message.content)
      botMentioned == message.mentions
      keywordTriggered == includes(contentLower, Keyword)
  IN botMentioned \/ continuingConversation \/ keywordTriggered

\* app.js:617-619
InCooldownInclusive(cooldowns, userId, t) ==
  userId \in DOMAIN cooldowns /\ t - cooldowns[userId] <= COOLDOWN_MS
InCooldown(cooldowns, userId, t) ==
  userId \in DOMAIN cooldowns /\ t - cooldowns[userId] < COOLDOWN_MS

(***************************************************************************)
(* Persistence (app.js:213-222, 358-374).                                  *)
(***************************************************************************)
\* the guard `if (isShuttingDown) return;`
SaveGuardMissing(shuttingDown) == FALSE
SaveSkipped(shuttingDown) == shuttingDown

\* a file that holds the whole text JSON.stringify makes of a value
FileOf(contents) == [kind |-> "valid", contents |-> contents]

\* a file that holds a part of that text: fs.writeFile opens the file with
\* flag 'w', which empties it, and writes afterwards
CutShort(contents) == [kind |-> "invalid", contents |-> contents]

\* fs.writeFile(file, JSON.stringify(value)) is called beside the calls in
\* flight on the same file: the calls share the file from now on
writeFile(pending, value) ==
  Append([i \in 1..Len(pending) |-> [pending[i] EXCEPT !.raced = TRUE]],
         [contents |-> value, raced |-> pending # <<>>])

\* saveHistory(): the fs.writeFile calls in flight after the call
saveHistory(pending, history, shuttingDown) ==
  IF SaveSkipped(shuttingDown) THEN pending ELSE writeFile(pending, history)

\* saveLongTermMemory()
saveLongTermMemory(pending, memory, shuttingDown) ==
  IF SaveSkipped(shuttingDown) THEN pending ELSE writeFile(pending, memory)

\* What the file holds when the i-th of the fs.writeFile calls in flight
\* on it settles.  A call that resolved alone has written its text.  A call
\* that was rejected has left the file alone (rejected at the open) or
\* holding a part of its text (rejected at the write).  Calls that ran side
\* by side on the file each emptied it and wrote from its start: when one
\* of them settles the file holds what it held before, the whole text of
\* that call or of a call still in flight, or a part of one of them.
WriteFileOutcomes(file, pending, i, ok) ==
  LET write == pending[i]
      own == IF ok THEN {FileOf(write.contents)} ELSE {}
      others == {pending[j].contents : j \in (1..Len(pending)) \ {i}}
  IN IF ~write.raced
     THEN IF ok THEN own ELSE {file, CutShort(write.contents)}
     ELSE {file, CutShort(write.contents)} \cup own
            \cup {FileOf(c) : c \in others}
            \cup {CutShort(c) : c \in others}

\* What a file holds after process.exit with fs.writeFile calls in flight
\* on it: what it held before, the text of one of the calls, or a part of
\* that text.
FileAtExit(file, pending) ==
  {file} \cup UNION { {FileOf(pending[i].contents),
                       CutShort(pending[i].contents)} :
                        i \in 1..Len(pending) }

\* app.js:386
ShutdownGuardMissing(shuttingDown) == FALSE
ShutdownSkipped(shuttingDown) == shuttingDown

(***************************************************************************)
(* The files a process can find when it starts (chat_history.json and     *)
(* long_term_memory.json), and the state at the start of the process.     *)
(***************************************************************************)
LoadedTurn(i) ==
  IF i % 2 = 1
  THEN [role |-> "user", username |-> Tag("ana"), content |-> <<"h", "i">>,
        timestamp |-> 0]
  ELSE [role |-> "assistant", content |-> <<"o", "k">>, timestamp |-> 0]

LoadedHistory(n) == [i \in 1..n |-> LoadedTurn(i)]

EmptyMemory ==
  [knownUsers |-> <<>>, summaries |-> <<>>, facts |-> <<>>]

Digits == <<"0", "1", "2", "3", "4", "5", "6", "7", "8", "9">>

\* a memory file left by earlier condensations: summaries and facts at
\* their caps
FullMemory ==
  [knownUsers |-> [id \in {"u1"} |->
                     [currentUsername |-> "ana",
                      previousUsernames |-> <<"ana">>]],
   summaries |-> [i \in 1..MAX_SUMMARIES |-> <<"s", Digits[i]>>],
   facts |-> [i \in 1..MAX_FACTS |->
                IF i = 1 THEN <<"a">> ELSE <<"f", Digits[i]>>]]

\* app.js:636-645 have not run for the message: no timer, snailReaction
\* undefined, no snail reaction on the message
NotArmed ==
  [timer |-> "unset", armedAt |-> 0, react |-> "none",
   snailReaction |-> FALSE, remove |-> "none", indicator |-> FALSE]

\* app.js:636-645: setTimeout(..., TIMEOUT_MS) at time t
ArmTimer(sr, t) == [sr EXCEPT !.timer = "armed", !.armedAt = t]

\* app.js:650-652: clearTimeout(slowResponseTimer), which stops a timer that
\* has not fired, and snailReaction?.remove(), which sends a removal request
\* when the watchdog has stored the reaction it added
SettleTimer(sr) ==
  [sr EXCEPT !.timer = IF @ = "armed" THEN "cleared" ELSE @,
             !.armedAt = 0,
             !.remove = IF sr.snailReaction THEN "pending" ELSE @]

\* an environment in which nothing happens
Idle ==
  [msgs |-> 0, inflight |-> 0, clock |-> {}, histTimer |-> 0, memTimer |-> 0,
   signals |-> 0, faults |-> {}]

\* app.js:676-680 have run: both loads are done and the timers are set
Started == [pc |-> "started", historyRead |-> "valid", memoryRead |-> "valid"]

\* the pair of files a process finds when it starts, with what fs.readFile
\* and JSON.parse make of each: a young log with the empty memory an earlier
\* run wrote, or a full log with a full memory
YoungDisk ==
  [historyFile |-> LoadedHistory(SUMMARY_INTERVAL - 1), historyRead |-> "valid",
   memoryFile |-> EmptyMemory, memoryRead |-> "valid"]

FullDisk ==
  [historyFile |-> LoadedHistory(MAX_HISTORY_LENGTH), historyRead |-> "valid",
   memoryFile |-> FullMemory, memoryRead |-> "valid"]

LoadedDisks == {YoungDisk, FullDisk}

H0 ==
  [msg |-> NoMsg, gateCalled |-> FALSE,
   histAlias |-> FALSE, histSnap |-> <<>>, conversationText |-> <<>>,
   condResult |-> "none", newSummary |-> <<>>, newFacts |-> <<>>,
   preHistory |-> <<>>, preSummaries |-> <<>>, preFacts |-> <<>>,
   botReply |-> <<>>]

InitBudgetIdle ==
  /\ bMessages = <<>>
  /\ bCeiling = 0
  /\ bResult = [done |-> FALSE, out |-> <<>>]

\* The process of app.js is started on one of the disks, in an environment
\* that follows one of the schedules: app.js:87-100 have run and loadHistory
\* (app.js:676) awaits its read.
InitApp(disks, schedules) ==
  /\ deployment = "shared"
  /\ schedule \in schedules
  /\ now = 0
  /\ chatHistory = <<>>
  /\ longTermMemory = EmptyMemory
  /\ userCooldowns = <<>>
  /\ isShuttingDown = FALSE
  /\ pc = [m \in Msgs |-> "idle"]
  /\ h = [m \in Msgs |-> H0]
  /\ \E disk \in disks :
       /\ startup = [pc |-> "load_history", historyRead |-> disk.historyRead,
                     memoryRead |-> disk.memoryRead]
       /\ historyFile = [kind |-> disk.historyRead,
                         contents |-> disk.historyFile]
       /\ memoryFile = [kind |-> disk.memoryRead,
                        contents |-> disk.memoryFile]
  /\ histWrite = <<>>
  /\ memWrite = <<>>
  /\ timersActive = FALSE
  /\ shutdownPc = "none"
  /\ exitCode = -1
  /\ apiCalls = 0
  /\ turnsSinceCondense = -1
  /\ slowResponse = [m \in Msgs |-> NotArmed]
  /\ InitBudgetIdle

\* the process is running, its initialisation done
Alive == exitCode = -1 /\ startup.pc = "started"

\* the process of app.js is running
Running == deployment = "shared" /\ Alive

(***************************************************************************)
(* messageCreate handler (app.js:609-670) with generateResponse            *)
(* (app.js:494-603) and condenseConversation (app.js:233-300).             *)
(***************************************************************************)
\* n turns are pushed onto the shared log
TurnsPushed(n) ==
  turnsSinceCondense' =
    IF turnsSinceCondense < 0 THEN turnsSinceCondense
    ELSE turnsSinceCondense + n

\* The array a suspended condenseConversation holds in `history`: the array
\* still bound to chatHistory, or the array that was bound when it started.
HistoryOf(m) == IF h[m].histAlias THEN chatHistory ELSE h[m].histSnap

\* chatHistory is re-bound to a new array: every other suspended
\* condenseConversation keeps the array `old` it captured.
Detach(hh, m, old) ==
  [k \in Msgs |->
     IF k # m /\ hh[k].histAlias /\ pc[k] \in {"cond_summary", "cond_fact"}
     THEN [hh[k] EXCEPT !.histAlias = FALSE, !.histSnap = old]
     ELSE hh[k]]

\* the handler invocation of message m is suspended at an await
InFlight(m) ==
  pc[m] \in {"react_cooldown", "react_error", "typing", "cond_summary",
             "cond_fact", "gen_call", "replying"}

\* the environment delivers message m: it is one of the messages of the
\* run, and no more invocations are suspended than the run lets overlap
Delivered(m, suspended) ==
  /\ m <= schedule.msgs
  /\ Cardinality(suspended) < schedule.inflight

\* the requests a handler sends to the gateway: message.react,
\* channel.sendTyping, message.reply, reaction.remove
GatewayOps == {"react", "typing", "reply", "remove"}

\* the requests to the gateway that can reject: those, and
\* discordClient.login (app.js:682)
Faults == GatewayOps \cup {"login"}

\* how a request to the gateway can settle: TRUE when it resolves, FALSE
\* when it rejects
GatewayOutcomes(op) == IF op \in schedule.faults THEN BOOLEAN ELSE {TRUE}

\* app.js:610-630, the synchronous head of the handler.  The locals of an
\* invocation exist while it is in flight.
Arrive(m) ==
  /\ Running
  /\ shutdownPc \in {"none", "destroying"}
  /\ pc[m] = "idle"
  /\ \A k \in Msgs : k < m => pc[k] # "idle"
  /\ Delivered(m, {k \in Msgs : InFlight(k)})
  /\ \E msg \in MsgInputs :
       IF msg.bot \/ isShuttingDown
       THEN /\ pc' = [pc EXCEPT ![m] = "ignored"]
            /\ UNCHANGED h
       ELSE IF InCooldown(userCooldowns, msg.id, now)
       THEN /\ pc' = [pc EXCEPT ![m] = "react_cooldown"]
            /\ h' = [h EXCEPT ![m] = [@ EXCEPT !.msg = msg]]
       ELSE IF ~shouldRespond(msg)
       THEN /\ pc' = [pc EXCEPT ![m] = "suppressed"]
            /\ h' = [h EXCEPT ![m] = [@ EXCEPT !.msg = msg,
                                               !.gateCalled = TRUE]]
       ELSE /\ pc' = [pc EXCEPT ![m] = "typing"]
            /\ h' = [h EXCEPT ![m] = [@ EXCEPT !.msg = msg,
                                               !.gateCalled = TRUE]]
  /\ UNCHANGED <<now, chatHistory, longTermMemory, userCooldowns,
                 isShuttingDown, historyFile, memoryFile, histWrite, memWrite,
                 timersActive, shutdownPc, exitCode, apiCalls>>
  /\ UNCHANGED <<schedule, deployment, slowResponse, startup, budgetVars, turnsSinceCondense>>

\* app.js:621-622 settles: await message.react(hourglass)
ReactCooldownDone(m) ==
  /\ Running
  /\ pc[m] = "react_cooldown"
  /\ \E ok \in GatewayOutcomes("react") :
       IF ok
       THEN /\ pc' = [pc EXCEPT ![m] = "cooled"]
            /\ h' = [h EXCEPT ![m] = H0]
       ELSE /\ pc' = [pc EXCEPT ![m] = "react_error"]
            /\ UNCHANGED h
  /\ UNCHANGED <<now, chatHistory, longTermMemory, userCooldowns,
                 isShuttingDown, historyFile, memoryFile, histWrite,
                 memWrite, timersActive, shutdownPc, exitCode,
                 apiCalls>>
  /\ UNCHANGED <<schedule, deployment, slowResponse, startup, budgetVars, turnsSinceCondense>>

\* shutdown() runs up to its await of discordClient.destroy()
\* (app.js:385-404).  The intervals are cleared and both save calls are made
\* with isShuttingDown already set.
shutdown ==
  IF ShutdownSkipped(isShuttingDown)
  THEN UNCHANGED <<isShuttingDown, timersActive, histWrite, memWrite,
                   shutdownPc>>
  ELSE /\ isShuttingDown' = TRUE
       /\ timersActive' = FALSE
       /\ histWrite' = saveHistory(histWrite, chatHistory, TRUE)
       /\ memWrite' = saveLongTermMemory(memWrite, longTermMemory, TRUE)
       /\ shutdownPc' = "destroying"

\* app.js:661-669 settles: await message.react(cross) inside the catch.
\* When it rejects, the promise of the handler rejects and nothing handles
\* it: the runtime raises it as an uncaught exception and the handler of
\* app.js:426-433 runs shutdown(), in the same run.
ReactErrorDone(m) ==
  /\ Running
  /\ pc[m] = "react_error"
  /\ \E ok \in GatewayOutcomes("react") :
       IF ok
       THEN /\ pc' = [pc EXCEPT ![m] = "failed"]
            /\ UNCHANGED <<isShuttingDown, timersActive, histWrite,
                           memWrite, shutdownPc>>
       ELSE /\ pc' = [pc EXCEPT ![m] = "rejected"]
            /\ shutdown
  /\ h' = [h EXCEPT ![m] = H0]
  /\ UNCHANGED <<now, chatHistory, longTermMemory, userCooldowns,
                 historyFile, memoryFile, exitCode, apiCalls>>
  /\ UNCHANGED <<schedule, deployment, slowResponse, startup, budgetVars, turnsSinceCondense>>

\* app.js:633 settles; on success app.js:636-648 and generateResponse run up
\* to their first await: the summary request (app.js:253) when the log has
\* reached SUMMARY_INTERVAL, else the generation request (app.js:562).
TypingDone(m) ==
  /\ Running
  /\ pc[m] = "typing"
  /\ \E ok \in GatewayOutcomes("typing") :
       IF ~ok
       THEN /\ pc' = [pc EXCEPT ![m] = "react_error"]
            /\ UNCHANGED <<chatHistory, longTermMemory, h, apiCalls,
                           turnsSinceCondense, slowResponse>>
       ELSE /\ slowResponse' =
                 [slowResponse EXCEPT ![m] = ArmTimer(@, now)]
            /\ longTermMemory' =
                 [longTermMemory EXCEPT
                    !.knownUsers = RegisterUser(longTermMemory.knownUsers,
                                                h[m].msg.id,
                                                h[m].msg.username)]
            /\ apiCalls' = apiCalls + 1
            /\ IF Len(chatHistory) >= SUMMARY_INTERVAL
               THEN /\ pc' = [pc EXCEPT ![m] = "cond_summary"]
                    /\ h' = [h EXCEPT ![m] =
                               [@ EXCEPT
                                  !.histAlias = TRUE,
                                  !.conversationText =
                                     ConversationText(chatHistory),
                                  !.preHistory = chatHistory,
                                  !.preSummaries = longTermMemory.summaries,
                                  !.preFacts = longTermMemory.facts]]
                    /\ UNCHANGED <<chatHistory, turnsSinceCondense>>
               ELSE /\ pc' = [pc EXCEPT ![m] = "gen_call"]
                    /\ chatHistory' =
                         Append(chatHistory, UserTurn(h[m].msg, now))
                    /\ TurnsPushed(1)
                    /\ UNCHANGED h
  /\ UNCHANGED <<now, userCooldowns, isShuttingDown, historyFile, memoryFile,
                 histWrite, memWrite, timersActive, shutdownPc,
                 exitCode>>
  /\ UNCHANGED <<schedule, deployment, startup, budgetVars>>

\* condenseConversation leaves through its catch (app.js:294-299) and
\* generateResponse goes on to app.js:525-562
CondenseFailed(m) ==
  /\ pc' = [pc EXCEPT ![m] = "gen_call"]
  /\ h' = [h EXCEPT ![m] = [@ EXCEPT !.condResult = "failed",
                                     !.histAlias = FALSE,
                                     !.histSnap = <<>>]]
  /\ chatHistory' = Append(chatHistory, UserTurn(h[m].msg, now))
  /\ TurnsPushed(1)
  /\ apiCalls' = apiCalls + 1

\* the summary request (app.js:253-261) settles
CondSummaryDone(m) ==
  /\ Running
  /\ pc[m] = "cond_summary"
  /\ \E r \in SummaryReplies :
       IF r.kind = "ok"
       THEN /\ longTermMemory' =
                 [longTermMemory EXCEPT
                    !.summaries = AddSummary(longTermMemory.summaries, r.text)]
            /\ pc' = [pc EXCEPT ![m] = "cond_fact"]
            /\ apiCalls' = apiCalls + 1
            /\ h' = [h EXCEPT ![m].newSummary = r.text]
            /\ UNCHANGED <<chatHistory, turnsSinceCondense>>
       ELSE /\ CondenseFailed(m)
            /\ UNCHANGED longTermMemory
  /\ UNCHANGED <<now, userCooldowns, isShuttingDown, historyFile, memoryFile,
                 histWrite, memWrite, timersActive, shutdownPc,
                 exitCode>>
  /\ UNCHANGED <<schedule, deployment, slowResponse, startup, budgetVars>>

\* the fact request (app.js:267-275) settles
CondFactDone(m) ==
  /\ Running
  /\ pc[m] = "cond_fact"
  /\ \E r \in FactReplies :
       IF r.kind = "ok"
       THEN /\ longTermMemory' =
                 [longTermMemory EXCEPT
                    !.facts = MergeFacts(longTermMemory.facts,
                                         ParseFacts(r.text))]
            /\ chatHistory' =
                 Append(SliceLast(HistoryOf(m), SUMMARY_INTERVAL),
                        UserTurn(h[m].msg, now))
            /\ h' = [Detach(h, m, chatHistory) EXCEPT ![m] =
                       [@ EXCEPT !.condResult = "ok", !.histAlias = FALSE,
                                 !.histSnap = <<>>,
                                 !.newFacts = ParseFacts(r.text)]]
            /\ pc' = [pc EXCEPT ![m] = "gen_call"]
            /\ apiCalls' = apiCalls + 1
            /\ turnsSinceCondense' = 1
       ELSE /\ CondenseFailed(m)
            /\ UNCHANGED longTermMemory
  /\ UNCHANGED <<now, userCooldowns, isShuttingDown, historyFile, memoryFile,
                 histWrite, memWrite, timersActive, shutdownPc,
                 exitCode>>
  /\ UNCHANGED <<schedule, deployment, slowResponse, startup, budgetVars>>

\* generateResponse has returned botReply: its locals and those of
\* condenseConversation are gone
Replying(locals, botReply) ==
  [H0 EXCEPT !.msg = locals.msg, !.gateCalled = locals.gateCalled,
             !.botReply = botReply]

\* app.js:583-585
TrimNeeded(history) == Len(history) > MAX_HISTORY_LENGTH

CatchesOnlyRejections(kind) == kind = "throw"

CatchesNothing(kind) == FALSE

\* app.js:495, 594-602: the try of generateResponse encloses its whole
\* body, so its catch receives whatever a response of this kind makes the
\* body throw (the rejection, the Error of app.js:570, a TypeError)
GenerateCatches(kind) == TRUE

PushAssistantAlways(history, r, t) == Append(history, AssistantTurn(r.text, t))

\* app.js:569-580: the log after the generation request has settled with r
AfterGeneration(history, r, t) ==
  IF r.kind = "ok" THEN Append(history, AssistantTurn(r.text, t))
  ELSE history

\* the generation request (app.js:562-567) settles; generateResponse returns
\* and the handler runs app.js:650-654 up to await message.reply.  An
\* exception that left generateResponse would reach the catch of the
\* handler (app.js:661).
GenDone(m) ==
  /\ Running
  /\ pc[m] = "gen_call"
  /\ \E r \in GenReplies :
       LET pushed == AfterGeneration(chatHistory, r, now) IN
       IF r.kind = "ok"
       THEN /\ chatHistory' =
                 IF TrimNeeded(pushed)
                 THEN SliceLast(pushed, MAX_HISTORY_LENGTH) ELSE pushed
            /\ h' = [(IF TrimNeeded(pushed) THEN Detach(h, m, pushed) ELSE h)
                       EXCEPT ![m] = Replying(h[m], r.text)]
            /\ pc' = [pc EXCEPT ![m] = "replying"]
            /\ TurnsPushed(Len(pushed) - Len(chatHistory))
            /\ slowResponse' =
                 [slowResponse EXCEPT ![m] = SettleTimer(@)]
       ELSE IF GenerateCatches(r.kind)
       THEN /\ h' = [h EXCEPT ![m] = Replying(h[m], FALLBACK)]
            /\ chatHistory' = pushed
            /\ pc' = [pc EXCEPT ![m] = "replying"]
            /\ TurnsPushed(Len(pushed) - Len(chatHistory))
            /\ slowResponse' =
                 [slowResponse EXCEPT ![m] = SettleTimer(@)]
       ELSE /\ chatHistory' = pushed
            /\ pc' = [pc EXCEPT ![m] = "react_error"]
            /\ TurnsPushed(Len(pushed) - Len(chatHistory))
            /\ UNCHANGED <<h, slowResponse>>
  /\ UNCHANGED <<now, longTermMemory, userCooldowns, isShuttingDown,
                 historyFile, memoryFile, histWrite, memWrite, timersActive,
                 shutdownPc, exitCode, apiCalls>>
  /\ UNCHANGED <<schedule, deployment, startup, budgetVars>>

\* await message.reply (app.js:654-657) settles; app.js:660 on success
ReplyDone(m) ==
  /\ Running
  /\ pc[m] = "replying"
  /\ \E ok \in GatewayOutcomes("reply") :
       IF ok
       THEN /\ h' = [h EXCEPT ![m] = H0]
            /\ userCooldowns' = MapSet(userCooldowns, h[m].msg.id, now)
            /\ pc' = [pc EXCEPT ![m] = "replied"]
       ELSE /\ pc' = [pc EXCEPT ![m] = "react_error"]
            /\ UNCHANGED <<h, userCooldowns>>
  /\ UNCHANGED <<now, chatHistory, longTermMemory, isShuttingDown,
                 historyFile, memoryFile, histWrite, memWrite, timersActive,
                 shutdownPc, exitCode, apiCalls>>
  /\ UNCHANGED <<schedule, deployment, slowResponse, startup, budgetVars, turnsSinceCondense>>

\* Wall-clock time passes: Date.now() gives a later instant of the run.
Tick ==
  /\ exitCode = -1
  /\ \E t \in schedule.clock : t > now /\ now' = t
  /\ UNCHANGED <<chatHistory, longTermMemory, userCooldowns, isShuttingDown,
                 pc, h, historyFile, memoryFile, histWrite, memWrite,
                 timersActive, shutdownPc, exitCode, apiCalls>>
  /\ UNCHANGED <<schedule, deployment, slowResponse, startup, budgetVars, turnsSinceCondense>>

(***************************************************************************)
(* Save timers (app.js:679-680) and the writes they start.                 *)
(***************************************************************************)
\* historyInterval fires (app.js:679): saveHistory() runs up to its await
SaveHistoryTimer ==
  /\ Alive
  /\ timersActive
  /\ schedule.histTimer > 0
  /\ schedule' = [schedule EXCEPT !.histTimer = @ - 1]
  /\ histWrite' = saveHistory(histWrite, chatHistory, isShuttingDown)
  /\ UNCHANGED <<now, chatHistory, longTermMemory, userCooldowns,
                 isShuttingDown, pc, h, historyFile, memoryFile, memWrite,
                 timersActive, shutdownPc, exitCode, apiCalls>>
  /\ UNCHANGED <<deployment, slowResponse, startup, budgetVars, turnsSinceCondense>>

\* memoryInterval fires (app.js:680): saveLongTermMemory() runs up to its
\* await
SaveMemoryTimer ==
  /\ Alive
  /\ timersActive
  /\ schedule.memTimer > 0
  /\ schedule' = [schedule EXCEPT !.memTimer = @ - 1]
  /\ memWrite' = saveLongTermMemory(memWrite, longTermMemory, isShuttingDown)
  /\ UNCHANGED <<now, chatHistory, longTermMemory, userCooldowns,
                 isShuttingDown, pc, h, historyFile, memoryFile, histWrite,
                 timersActive, shutdownPc, exitCode, apiCalls>>
  /\ UNCHANGED <<deployment, slowResponse, startup, budgetVars, turnsSinceCondense>>

\* the calls in flight once the i-th of them has settled
Settled(pending, i) ==
  SubSeq(pending, 1, i - 1) \o SubSeq(pending, i + 1, Len(pending))

\* one of the fs.writeFile calls of app.js:362 settles: the calls on one file
\* run side by side and settle in no fixed order
HistoryWriteDone ==
  /\ Alive
  /\ \E i \in 1..Len(histWrite), ok \in BOOLEAN :
       /\ historyFile' \in WriteFileOutcomes(historyFile, histWrite, i, ok)
       /\ histWrite' = Settled(histWrite, i)
  /\ UNCHANGED <<now, chatHistory, longTermMemory, userCooldowns,
                 isShuttingDown, pc, h, memoryFile, memWrite, timersActive,
                 shutdownPc, exitCode, apiCalls>>
  /\ UNCHANGED <<schedule, deployment, slowResponse, startup, budgetVars, turnsSinceCondense>>

\* one of the fs.writeFile calls of app.js:217 settles
MemoryWriteDone ==
  /\ Alive
  /\ \E i \in 1..Len(memWrite), ok \in BOOLEAN :
       /\ memoryFile' \in WriteFileOutcomes(memoryFile, memWrite, i, ok)
       /\ memWrite' = Settled(memWrite, i)
  /\ UNCHANGED <<now, chatHistory, longTermMemory, userCooldowns,
                 isShuttingDown, pc, h, historyFile, histWrite, timersActive,
                 shutdownPc, exitCode, apiCalls>>
  /\ UNCHANGED <<schedule, deployment, slowResponse, startup, budgetVars, turnsSinceCondense>>

(***************************************************************************)
(* Shutdown (app.js:385-433).                                              *)
(***************************************************************************)
Signals == {"SIGINT", "SIGTERM", "uncaughtException"}

\* A signal handler (app.js:424-433) runs shutdown().
Signal ==
  /\ Running
  /\ schedule.signals > 0
  /\ schedule' = [schedule EXCEPT !.signals = @ - 1]
  /\ \E sig \in Signals : shutdown
  /\ UNCHANGED <<now, chatHistory, longTermMemory, userCooldowns, pc, h,
                 historyFile, memoryFile, exitCode, apiCalls>>
  /\ UNCHANGED <<deployment, slowResponse, startup, budgetVars, turnsSinceCondense>>

\* process.exit(code): the process is gone with its memory (the handler
\* locals reset to locals0, the long-term memory to memory0); the files stay,
\* and a file with fs.writeFile calls in flight is left as those calls have
\* got on with it.
ProcessEnds(code, locals0, memory0) ==
  /\ exitCode' = code
  /\ shutdownPc' = "exited"
  /\ chatHistory' = <<>>
  /\ longTermMemory' = memory0
  /\ userCooldowns' = <<>>
  /\ pc' = [m \in Msgs |-> "dead"]
  /\ h' = [m \in Msgs |-> locals0]
  /\ historyFile' \in FileAtExit(historyFile, histWrite)
  /\ memoryFile' \in FileAtExit(memoryFile, memWrite)
  /\ histWrite' = <<>>
  /\ memWrite' = <<>>
  /\ slowResponse' =
       [m \in Msgs |->
          [NotArmed EXCEPT !.indicator = slowResponse[m].indicator]]

ExitAlwaysZero(code) ==
  /\ ProcessEnds(0, H0, EmptyMemory)
  /\ turnsSinceCondense' = -1
  /\ UNCHANGED <<now, isShuttingDown, timersActive, apiCalls>>
  /\ UNCHANGED <<schedule, deployment, startup, budgetVars>>

\* process.exit(code) of app.js
Exit(code) ==
  /\ ProcessEnds(code, H0, EmptyMemory)
  /\ turnsSinceCondense' = -1
  /\ UNCHANGED <<now, isShuttingDown, timersActive, apiCalls>>
  /\ UNCHANGED <<schedule, deployment, startup, budgetVars>>

\* await discordClient.destroy() settles (app.js:404); when it rejects the
\* catch of app.js:412-419 exits with status 1
DestroyDone ==
  /\ Running
  /\ shutdownPc = "destroying"
  /\ \E ok \in BOOLEAN :
       IF ok
       THEN /\ shutdownPc' = "exit_wait"
            /\ UNCHANGED <<now, chatHistory, longTermMemory, userCooldowns,
                           isShuttingDown, pc, h, historyFile, memoryFile,
                           histWrite, memWrite, timersActive, exitCode,
                           apiCalls>>
            /\ UNCHANGED <<schedule, deployment, slowResponse, startup, budgetVars, turnsSinceCondense>>
       ELSE Exit(1)

\* the 500 ms timer of app.js:410 fires; process.exit(0)
ExitTimer ==
  /\ Running
  /\ shutdownPc = "exit_wait"
  /\ Exit(0)

\* discordClient.login() (app.js:682) rejects: its catch calls
\* process.exit(1) (app.js:684-691)
LoginFails ==
  /\ Running
  /\ "login" \in schedule.faults
  /\ Exit(1)

(***************************************************************************)
(* Module initialisation (app.js:676-680): loadHistory, loadLongTermMemory *)
(* and the two setInterval calls.  The signal handlers are registered      *)
(* before (app.js:424-433).                                                *)
(***************************************************************************)
\* what fs.readFile and JSON.parse find: no file, a file whose text is not
\* JSON (here: the text of a log or memory cut short), or a file that parses
ReadKinds == {"missing", "invalid", "valid"}

LoadHistoryParsesAnything(read, contents) == contents

\* loadHistory (app.js:336-351): the value bound to chatHistory
loadHistory(read, contents) == IF read = "valid" THEN contents ELSE <<>>

\* loadLongTermMemory (app.js:194-206): the value bound to longTermMemory
loadLongTermMemory(read, contents) ==
  IF read = "valid" THEN contents
  ELSE [knownUsers |-> <<>>, summaries |-> <<>>, facts |-> <<>>]

\* the disks a starting process can find: each file missing, cut short or
\* whole
StartupDisks ==
  { [historyFile |-> IF hr = "missing" THEN <<>> ELSE LoadedHistory(n),
     historyRead |-> hr,
     memoryFile |-> IF mr = "missing" THEN EmptyMemory ELSE FullMemory,
     memoryRead |-> mr] :
      hr \in ReadKinds, mr \in ReadKinds,
      n \in {SUMMARY_INTERVAL - 1, MAX_HISTORY_LENGTH} }

\* loadLongTermMemory of the per-identity bots (part_002:113-121): the
\* object keyed by user id, empty when the file is missing or does not parse
P2loadLongTermMemory(read, contents) ==
  IF read = "valid" THEN contents ELSE <<>>

\* the process is in its initialisation
StartingUp == exitCode = -1 /\ startup.pc # "started"

\* await loadHistory() (app.js:676) settles
LoadHistoryDone ==
  /\ StartingUp
  /\ startup.pc = "load_history"
  /\ chatHistory' = loadHistory(historyFile.kind, historyFile.contents)
  /\ startup' = [startup EXCEPT !.pc = "load_memory"]
  /\ UNCHANGED <<schedule, deployment, now, longTermMemory, userCooldowns,
                 isShuttingDown, pc, h, historyFile, memoryFile, histWrite,
                 memWrite, timersActive, shutdownPc, exitCode, apiCalls,
                 turnsSinceCondense, slowResponse, budgetVars>>

\* await loadLongTermMemory() (app.js:677) settles; app.js:679-680 set the
\* two intervals
LoadMemoryDone ==
  /\ StartingUp
  /\ startup.pc = "load_memory"
  /\ longTermMemory' =
       IF deployment = "shared"
       THEN loadLongTermMemory(memoryFile.kind, memoryFile.contents)
       ELSE P2loadLongTermMemory(memoryFile.kind, memoryFile.contents)
  /\ timersActive' = TRUE
  /\ startup' = [startup EXCEPT !.pc = "started"]
  /\ UNCHANGED <<schedule, deployment, now, chatHistory, userCooldowns,
                 isShuttingDown, pc, h, historyFile, memoryFile, histWrite,
                 memWrite, shutdownPc, exitCode, apiCalls,
                 turnsSinceCondense, slowResponse, budgetVars>>

\* A signal handler runs shutdown() during the initialisation: the flag is
\* set (app.js:387), clearInterval(historyInterval) reads a const that
\* app.js:679 has not initialised yet and throws a ReferenceError, and the
\* catch of app.js:412-419 exits with status 1, all in one run.
SignalDuringStartup ==
  /\ StartingUp
  /\ schedule.signals > 0
  /\ schedule' = [schedule EXCEPT !.signals = @ - 1]
  /\ \E sig \in Signals :
       IF ShutdownSkipped(isShuttingDown)
       THEN UNCHANGED <<isShuttingDown, chatHistory, longTermMemory, pc,
                        shutdownPc, exitCode>>
       ELSE /\ isShuttingDown' = TRUE
            /\ exitCode' = 1
            /\ shutdownPc' = "exited"
            /\ chatHistory' = <<>>
            /\ longTermMemory' =
                 IF deployment = "shared" THEN EmptyMemory ELSE <<>>
            /\ pc' = [m \in Msgs |-> "dead"]
  /\ UNCHANGED <<deployment, slowResponse, startup, now, userCooldowns, h,
                 historyFile, memoryFile, histWrite, memWrite, timersActive, apiCalls,
                 turnsSinceCondense, budgetVars>>

\* a gateway operation or completion request awaited by a handler settles
\* and the handler moves on
AwaitSettles(m) ==
  /\ pc[m] \in {"typing", "cond_summary", "cond_fact", "gen_call",
                "replying"}
  /\ \E p \in {"cond_summary", "cond_fact", "gen_call", "replying",
                "replied"} :
       p # pc[m] /\ pc' = [pc EXCEPT ![m] = p]

(***************************************************************************)
(* The slow-response timer of the handler (app.js:635-652).                *)
(***************************************************************************)
\* a timer that is due as soon as it is set
TimerDueAtOnce(armedAt, t) == TRUE

\* setTimeout(..., TIMEOUT_MS): the delay has elapsed at time t
TimerDue(armedAt, t) == t - armedAt >= TIMEOUT_MS

\* the handler of invocation m is suspended in await generateResponse
GenPending(m) == pc[m] \in {"cond_summary", "cond_fact", "gen_call"}

\* generateResponse of invocation m has returned (app.js:648)
GenSettled(m) ==
  /\ slowResponse[m].timer # "unset"
  /\ pc[m] \in {"replying", "replied", "react_error", "failed", "rejected"}

\* the callback of slowResponseTimer starts (app.js:638-640) and runs up to
\* await message.react(snail)
WatchdogFires(m) ==
  /\ Alive
  /\ slowResponse[m].timer = "armed"
  /\ TimerDue(slowResponse[m].armedAt, now)
  /\ slowResponse' = [slowResponse EXCEPT
                        ![m] = [@ EXCEPT !.timer = "fired",
                                         !.react = "pending"]]
  /\ UNCHANGED <<now, chatHistory, longTermMemory, userCooldowns,
                 isShuttingDown, pc, h, historyFile, memoryFile, histWrite,
                 memWrite, timersActive, shutdownPc, exitCode, apiCalls>>
  /\ UNCHANGED <<schedule, deployment, startup, budgetVars, turnsSinceCondense>>

\* await message.react(snail) of the callback settles (app.js:640-644): the
\* reaction is on the message and is stored in snailReaction, or the
\* failure is logged
SnailReactDone(m) ==
  /\ Alive
  /\ slowResponse[m].react = "pending"
  /\ \E ok \in GatewayOutcomes("react") :
       slowResponse' =
         [slowResponse EXCEPT
            ![m] = IF ok
                   THEN [@ EXCEPT !.react = "done", !.snailReaction = TRUE,
                                  !.indicator = TRUE]
                   ELSE [@ EXCEPT !.react = "failed"]]
  /\ UNCHANGED <<now, chatHistory, longTermMemory, userCooldowns,
                 isShuttingDown, pc, h, historyFile, memoryFile, histWrite,
                 memWrite, timersActive, shutdownPc, exitCode, apiCalls>>
  /\ UNCHANGED <<schedule, deployment, startup, budgetVars, turnsSinceCondense>>

\* the request of snailReaction.remove() settles (app.js:652); a failure is
\* swallowed by its catch
SnailRemoveDone(m) ==
  /\ Running
  /\ slowResponse[m].remove = "pending"
  /\ \E ok \in GatewayOutcomes("remove") :
       slowResponse' =
         [slowResponse EXCEPT
            ![m] = IF ok
                   THEN [@ EXCEPT !.remove = "done", !.indicator = FALSE]
                   ELSE [@ EXCEPT !.remove = "failed"]]
  /\ UNCHANGED <<now, chatHistory, longTermMemory, userCooldowns,
                 isShuttingDown, pc, h, historyFile, memoryFile, histWrite,
                 memWrite, timersActive, shutdownPc, exitCode, apiCalls>>
  /\ UNCHANGED <<schedule, deployment, startup, budgetVars, turnsSinceCondense>>

(***************************************************************************)
(* The process of app.js: every event of the gateway, the completion API,  *)
(* the file system, the clock, the timers and the signals.                 *)
(***************************************************************************)
Next ==
  \/ LoadHistoryDone
  \/ LoadMemoryDone
  \/ SignalDuringStartup
  \/ \E m \in Msgs : Arrive(m)
  \/ \E m \in Msgs : ReactCooldownDone(m)
  \/ \E m \in Msgs : ReactErrorDone(m)
  \/ \E m \in Msgs : TypingDone(m)
  \/ \E m \in Msgs : CondSummaryDone(m)
  \/ \E m \in Msgs : CondFactDone(m)
  \/ \E m \in Msgs : GenDone(m)
  \/ \E m \in Msgs : ReplyDone(m)
  \/ \E m \in Msgs : WatchdogFires(m)
  \/ \E m \in Msgs : SnailReactDone(m)
  \/ \E m \in Msgs : SnailRemoveDone(m)
  \/ Tick
  \/ SaveHistoryTimer
  \/ SaveMemoryTimer
  \/ HistoryWriteDone
  \/ MemoryWriteDone
  \/ Signal
  \/ DestroyDone
  \/ ExitTimer
  \/ LoginFails

(***************************************************************************)
(* Environments of a run.                                                  *)
(***************************************************************************)
\* the messages arrive and their handlings may overlap; every gateway
\* request and the login may reject; the clock stands still, no interval
\* fires, no signal comes
Calm ==
  [msgs |-> MaxMsgs, inflight |-> MaxMsgs, clock |-> {}, histTimer |-> 0,
   memTimer |-> 0, signals |-> 0, faults |-> Faults]

\* each message is handled to its end before the next one arrives
Serial == [Calm EXCEPT !.inflight = 1]

\* the clock is read just before and at the end of the cooldown window
AroundCooldown == {COOLDOWN_MS - 1, COOLDOWN_MS}

\* the clock is read just before and at the delay of the slow-response timer
AroundTimeout == {TIMEOUT_MS - 1, TIMEOUT_MS}

\* one message, handled while the clock passes the slow-response delay
Slow == [Calm EXCEPT !.msgs = 1, !.clock = AroundTimeout]

\* one message, handled while the save intervals fire and signals come
Saving ==
  [Calm EXCEPT !.msgs = 1, !.histTimer = MaxSaves, !.memTimer = MaxSaves,
               !.signals = MaxSignals]

\* signals come while the messages are handled
Signalled == [Calm EXCEPT !.signals = MaxSignals]

(***************************************************************************)
(* Spec: app.js on a loaded pair of files.                                 *)
(***************************************************************************)
Init ==
  \/ InitApp(LoadedDisks, {Calm, [Serial EXCEPT !.clock = AroundCooldown],
                           [Serial EXCEPT !.clock = {THIRTY_SECONDS + 1}]})
  \/ InitApp({YoungDisk}, {[Calm EXCEPT !.clock = AroundCooldown],
                           Signalled, Slow, Saving})

Spec == Init /\ [][Next]_vars

(***************************************************************************)
(* SpecPersist: app.js with its save intervals firing and signals coming   *)
(* while messages are handled.                                             *)
(***************************************************************************)
InitPersist ==
  InitApp({YoungDisk}, {Saving,
                        [Serial EXCEPT !.histTimer = 1, !.memTimer = 1,
                                       !.signals = 1],
                        [Calm EXCEPT !.histTimer = 1],
                        [Calm EXCEPT !.memTimer = 1],
                        Slow})

SpecPersist == InitPersist /\ [][Next]_vars

(***************************************************************************)
(* SpecStartup: app.js on every pair of files it can find.                 *)
(***************************************************************************)
InitStartup ==
  \/ InitApp(StartupDisks, {[Serial EXCEPT !.signals = 1]})
  \/ InitApp({YoungDisk}, {Slow, Saving})

SpecStartup == InitStartup /\ [][Next]_vars

(***************************************************************************)
(* SpecShutdown: app.js with signals, under the fairness of the awaited    *)
(* steps of shutdown().                                                    *)
(***************************************************************************)
InitShutdown ==
  \/ InitApp(LoadedDisks, {[Serial EXCEPT !.signals = 1],
                           [Serial EXCEPT !.signals = 1,
                                          !.faults = GatewayOps]})
  \/ InitApp({YoungDisk}, {Slow, Saving})

SpecShutdown ==
  /\ InitShutdown
  /\ [][Next]_vars
  /\ WF_vars(DestroyDone)
  /\ WF_vars(ExitTimer)

(***************************************************************************)
(* SpecWatchdog: app.js with the clock passing the delay of the            *)
(* slow-response timer while handlers are suspended.                       *)
(***************************************************************************)
InitWatchdog ==
  InitApp({YoungDisk}, {[Calm EXCEPT !.clock = AroundTimeout], Saving})

SpecWatchdog == InitWatchdog /\ [][Next]_vars

(***************************************************************************)
(* SpecReply: app.js under the fairness of the operations a handler awaits.*)
(***************************************************************************)
\* the login, sendTyping and reply resolve and no signal comes
Cooperative == [Calm EXCEPT !.faults = {"react", "remove"}]

InitReply ==
  \/ InitApp(LoadedDisks, {Cooperative})
  \/ InitApp({YoungDisk}, {Slow, Saving})

SpecReply ==
  /\ InitReply
  /\ [][Next]_vars
  /\ \A m \in Msgs : WF_pc(AwaitSettles(m))

(***************************************************************************)
(* SpecBudget: optimizeTokenUsage applied to bounded message lists under   *)
(* bounded ceilings (the code's ceiling is the constant MAX_TOKENS).       *)
(***************************************************************************)
BudgetText(n) == [i \in 1..n |-> "x"]

BudgetMessages ==
  { [role |-> "user", content |-> BudgetText(n)] : n \in 0..MaxTextLen }

InitBudget ==
  /\ deployment = "shared"
  /\ schedule = Idle
  /\ now = 0
  /\ chatHistory = <<>>
  /\ longTermMemory = EmptyMemory
  /\ userCooldowns = <<>>
  /\ isShuttingDown = FALSE
  /\ pc = [m \in Msgs |-> "idle"]
  /\ h = [m \in Msgs |-> H0]
  /\ historyFile = [kind |-> "missing", contents |-> <<>>]
  /\ memoryFile = [kind |-> "missing", contents |-> EmptyMemory]
  /\ histWrite = <<>>
  /\ memWrite = <<>>
  /\ timersActive = FALSE
  /\ shutdownPc = "none"
  /\ exitCode = -1
  /\ apiCalls = 0
  /\ turnsSinceCondense = -1
  /\ startup = Started
  /\ slowResponse = [m \in Msgs |-> NotArmed]
  /\ bMessages = <<>>
  /\ bCeiling \in 0..MaxCeiling
  /\ bResult = [done |-> FALSE, out |-> <<>>]

\* the caller builds its message list: the system persona first, then the
\* formatted turns (app.js:533-556)
BudgetAdd ==
  /\ ~bResult.done
  /\ Len(bMessages) < MaxList
  /\ \E msg \in BudgetMessages :
       bMessages' = Append(bMessages,
                           [msg EXCEPT !.role = IF bMessages = <<>>
                                                THEN "system" ELSE "user"])
  /\ UNCHANGED <<bCeiling, bResult>>
  /\ UNCHANGED botVars

\* optimizeTokenUsage(messages) returns
BudgetOptimize ==
  /\ ~bResult.done
  /\ bResult' = [done |-> TRUE,
                 out |-> optimizeTokenUsageWith(bMessages, bCeiling)]
  /\ UNCHANGED <<bMessages, bCeiling>>
  /\ UNCHANGED botVars

NextBudget == BudgetAdd \/ BudgetOptimize

SpecBudget == InitBudget /\ [][NextBudget]_vars

(***************************************************************************)
(* The per-identity bots: the classifier-gated bot of src/unnamed/part_002 *)
(* (lines 1-534), and the two bots that run the same generateResponse,     *)
(* condenseConversation and handler tail with their own constants and      *)
(* their own gate: src/unnamed/part_001 ("contextual": no local check, the *)
(* classifier request carries the identity's recent turns) and             *)
(* src/unnamed/part_000 ("heuristic": a synchronous keyword-or-continuity  *)
(* gate).  chatHistory and longTermMemory are objects keyed by user id.    *)
(* Their module initialisation, save intervals and file writes are those   *)
(* of app.js (part_002:517-522, 113-131, 217-245); part_000 also sets the  *)
(* slow-response timer (part_000:500-515).                                 *)
(***************************************************************************)
P2_COOLDOWN_MS == 5000
P2_SUMMARY_INTERVAL == 12
P1_COOLDOWN_MS == 8000
P1_SUMMARY_INTERVAL == 30
P0_COOLDOWN_MS == 8000
P0_SUMMARY_INTERVAL == 15
P0_THIRTY_SECONDS == 30000

PerIdentity == {"heuristic", "contextual", "classifier"}

\* COOLDOWN_MS of the per-identity bot that runs
PerIdCooldownMs ==
  CASE deployment = "heuristic" -> P0_COOLDOWN_MS
    [] deployment = "contextual" -> P1_COOLDOWN_MS
    [] OTHER -> P2_COOLDOWN_MS

\* SUMMARY_INTERVAL of the per-identity bot that runs
PerIdSummaryInterval ==
  CASE deployment = "heuristic" -> P0_SUMMARY_INTERVAL
    [] deployment = "contextual" -> P1_SUMMARY_INTERVAL
    [] OTHER -> P2_SUMMARY_INTERVAL
P2_FALLBACK == <<"E", "s", "t", "o", "y", " ", "a", "g", "o", "t", "a", "d", "o">>

\* String.prototype.toUpperCase on the characters the replies use
UpperChar(c) ==
  CASE c = "s" -> "S"
    [] c = "í" -> "Í"
    [] c = "n" -> "N"
    [] c = "o" -> "O"
    [] OTHER -> c

toUpperCase(s) == [i \in 1..Len(s) |-> UpperChar(s[i])]

\* what the classifier request of part_002:301-316 (part_001:332-342) can
\* produce
ClassifierReplies ==
  { [kind |-> "ok", text |-> <<" ", "s", "í">>],
    [kind |-> "ok", text |-> <<"S", "Í", ".">>],
    [kind |-> "ok", text |-> <<"N", "O">>] } \cup ApiFailures

\* a decision that accepts every reply beginning with the word
ClassifierDecisionPrefix(text) ==
  LET decisionText == toUpperCase(trim(text)) IN
  Len(decisionText) >= 2 /\ SubSeq(decisionText, 1, 2) = <<"S", "Í">>

\* part_002:318, the decision read from a classifier response
ClassifierDecision(text) == toUpperCase(trim(text)) = <<"S", "Í">>

LocalCheckAlways(msg) == TRUE

\* part_002:463, the quick local check on the lower-cased content
LocalCheckPasses(msg) ==
  includes(toLowerCase(msg.content), Keyword) \/ msg.mentions

\* part_000:301-310, the turns of the identity's log at most 30 s old
P0RecentHistory(fullHistory, t) ==
  SelectSeq(fullHistory, LAMBDA msg : t - msg.timestamp <= P0_THIRTY_SECONDS)

P0ContinuingAtAnyAge(fullHistory, t) == Len(fullHistory) > 0

\* part_000:320-331
P0ContinuingConversation(fullHistory, t) ==
  LET recent == P0RecentHistory(fullHistory, t) IN
  /\ Len(recent) > 0
  /\ LET lastMsg == recent[Len(recent)] IN
     /\ lastMsg.role \in {"assistant", "user"}
     /\ t - lastMsg.timestamp <= P0_THIRTY_SECONDS

\* shouldRespond(userId, messageContent) of part_000:292-356, called with
\* the lower-cased content (part_000:473): the keyword or the continuity of
\* the identity's own log; mentions are not looked at
P0shouldRespond(history, userId, messageContent, t) ==
  LET fullHistory == IF userId \in DOMAIN history THEN history[userId]
                     ELSE <<>>
  IN \/ P0ContinuingConversation(fullHistory, t)
     \/ includes(toLowerCase(messageContent), Keyword)

\* part_002:472-474 (part_001:492-494, part_000:477-479)
P2InCooldown(cooldowns, userId, t) ==
  userId \in DOMAIN cooldowns /\ t - cooldowns[userId] < PerIdCooldownMs

\* part_002:346-350, the memory generateResponse creates for a new identity
P2FreshMemory ==
  [summaries |-> <<>>, facts |-> <<>>, knownUsers |-> <<>>,
   hasKnownUsers |-> TRUE]

\* part_002:138, the memory condenseConversation creates for a new identity:
\* it has no knownUsers property
P2CondenseFreshMemory ==
  [summaries |-> <<>>, facts |-> <<>>, knownUsers |-> <<>>,
   hasKnownUsers |-> FALSE]

\* part_002:353-359
P2RegisterUser(memory, userId, username) ==
  [memory EXCEPT !.knownUsers = RegisterUser(memory.knownUsers, userId,
                                             username)]

\* part_002:141-144: the lines of conversationText; an assistant turn has no
\* username property
P2ConversationText(history) ==
  LET window == SliceLast(history, PerIdSummaryInterval) IN
  [i \in 1..Len(window) |->
     [name |-> IF window[i].role = "assistant" THEN <<"undefined">>
               ELSE window[i].username,
      said |-> window[i].content]]

\* what loadHistory and loadLongTermMemory of part_002 read at startup:
\* empty objects, or the log of one identity (one turn short of the trim)
\* with its memory
P2LoadedStores ==
  { [history |-> <<>>, memory |-> <<>>],
    [history |-> [id \in {"u1"} |-> LoadedHistory(MAX_HISTORY_LENGTH - 1)],
     memory |-> [id \in {"u1"} |->
                   [summaries |-> <<<<"s", "0">>>>, facts |-> <<<<"a">>>>,
                    knownUsers |-> [u \in {"u1"} |->
                                      [currentUsername |-> "ana",
                                       previousUsernames |-> <<"ana">>]],
                    hasKnownUsers |-> TRUE]]],
    [history |-> [id \in {"u1"} |-> LoadedHistory(P2_SUMMARY_INTERVAL)],
     memory |-> <<>>] }

\* what part_001 reads at startup: the same, or a log that has reached its
\* SUMMARY_INTERVAL with no memory file
P1LoadedStores ==
  P2LoadedStores \cup
  { [history |-> [id \in {"u1"} |-> LoadedHistory(P1_SUMMARY_INTERVAL)],
     memory |-> <<>>] }

\* what part_000 reads at startup: the same, or a log one turn short of its
\* SUMMARY_INTERVAL
P0LoadedStores ==
  P2LoadedStores \cup
  { [history |-> [id \in {"u1"} |-> LoadedHistory(P0_SUMMARY_INTERVAL - 1)],
     memory |-> <<>>] }

\* locals of one handler invocation of part_002
P2H0 ==
  [msg |-> NoMsg, gateCalled |-> FALSE, decisionText |-> <<>>,
   histStored |-> FALSE, userHistory |-> <<>>,
   memStored |-> FALSE, memory |-> P2FreshMemory,
   condMemStored |-> FALSE, condMemory |-> P2CondenseFreshMemory,
   condResult |-> "none", newSummary |-> <<>>,
   conversationText |-> <<>>, botReply |-> <<>>]

\* what the per-identity bot that runs finds on disk
PerIdStores ==
  CASE deployment = "heuristic" -> P0LoadedStores
    [] deployment = "contextual" -> P1LoadedStores
    [] OTHER -> P2LoadedStores

\* The process of a per-identity bot is started on one of the stores, each
\* file found as one of the reads says (missing, a text that does not
\* parse, or a text that parses), in an environment that follows one of
\* the schedules: the declarations of part_002:87-100 have run and
\* loadHistory (part_002:517) awaits its read.
InitPerIdentity(programs, stores, reads, schedules) ==
  /\ deployment \in programs
  /\ schedule \in schedules
  /\ now = 0
  /\ chatHistory = <<>>
  /\ longTermMemory = <<>>
  /\ userCooldowns = <<>>
  /\ isShuttingDown = FALSE
  /\ pc = [m \in Msgs |-> "idle"]
  /\ h = [m \in Msgs |-> P2H0]
  /\ \E store \in stores, read \in reads :
       /\ historyFile =
            [kind |-> read[1],
             contents |-> IF read[1] = "missing" THEN <<>>
                          ELSE store.history]
       /\ memoryFile =
            [kind |-> read[2],
             contents |-> IF read[2] = "missing" THEN <<>>
                          ELSE store.memory]
       /\ startup = [pc |-> "load_history", historyRead |-> read[1],
                     memoryRead |-> read[2]]
  /\ histWrite = <<>>
  /\ memWrite = <<>>
  /\ timersActive = FALSE
  /\ shutdownPc = "none"
  /\ exitCode = -1
  /\ apiCalls = 0
  /\ turnsSinceCondense = -1
  /\ slowResponse = [m \in Msgs |-> NotArmed]
  /\ InitBudgetIdle

\* the process of a per-identity bot is running
P2Running == deployment \in PerIdentity /\ Alive

P2InFlight(m) == InFlight(m) \/ pc[m] = "classify"

\* what no step of the part_002 handler touches
P2FrameButTimer ==
  UNCHANGED <<schedule, deployment, startup, isShuttingDown, historyFile,
              memoryFile, histWrite, memWrite, timersActive, shutdownPc,
              exitCode, budgetVars, turnsSinceCondense>>

P2Frame == P2FrameButTimer /\ UNCHANGED slowResponse

\* part_002:452-485, the synchronous head of the handler up to the
\* classifier request of shouldRespond (part_002:301).  part_001:484-502 has
\* no local check; part_000:469-490 has none either and decides in the
\* same run, without a request.
P2Arrive(m) ==
  /\ P2Running
  /\ pc[m] = "idle"
  /\ \A k \in Msgs : k < m => pc[k] # "idle"
  /\ Delivered(m, {k \in Msgs : P2InFlight(k)})
  /\ \E msg \in MsgInputs :
       IF msg.bot \/ isShuttingDown
       THEN /\ pc' = [pc EXCEPT ![m] = "ignored"]
            /\ UNCHANGED <<h, apiCalls>>
       ELSE IF deployment = "classifier" /\ ~LocalCheckPasses(msg)
       THEN /\ pc' = [pc EXCEPT ![m] = "ignored_local"]
            /\ h' = [h EXCEPT ![m] = [@ EXCEPT !.msg = msg]]
            /\ UNCHANGED apiCalls
       ELSE IF P2InCooldown(userCooldowns, msg.id, now)
       THEN /\ pc' = [pc EXCEPT ![m] = "react_cooldown"]
            /\ h' = [h EXCEPT ![m] = [@ EXCEPT !.msg = msg]]
            /\ UNCHANGED apiCalls
       ELSE IF deployment = "heuristic"
       THEN /\ pc' = [pc EXCEPT ![m] =
                        IF P0shouldRespond(chatHistory, msg.id, msg.content,
                                           now)
                        THEN "typing" ELSE "suppressed"]
            /\ h' = [h EXCEPT ![m] = [@ EXCEPT !.msg = msg,
                                               !.gateCalled = TRUE]]
            /\ UNCHANGED apiCalls
       ELSE /\ pc' = [pc EXCEPT ![m] = "classify"]
            /\ h' = [h EXCEPT ![m] = [@ EXCEPT !.msg = msg,
                                               !.gateCalled = TRUE]]
            /\ apiCalls' = apiCalls + 1
  /\ UNCHANGED <<now, chatHistory, longTermMemory, userCooldowns>>
  /\ P2Frame

\* part_002:476 settles: await message.react(hourglass)
P2ReactCooldownDone(m) ==
  /\ P2Running
  /\ pc[m] = "react_cooldown"
  /\ \E ok \in GatewayOutcomes("react") :
       IF ok
       THEN /\ pc' = [pc EXCEPT ![m] = "cooled"]
            /\ h' = [h EXCEPT ![m] = P2H0]
       ELSE /\ pc' = [pc EXCEPT ![m] = "react_error"]
            /\ UNCHANGED h
  /\ UNCHANGED <<now, chatHistory, longTermMemory, userCooldowns, apiCalls>>
  /\ P2Frame

\* shutdown() of part_002:257-283 runs: the flag is set, the timers are
\* cleared, both saves return at their guard, destroy() is not awaited, and
\* the process exits in the same run (status 1 when destroy() throws)
P2shutdown ==
  /\ isShuttingDown' = TRUE
  /\ timersActive' = FALSE
  /\ \E code \in {0, 1} : ProcessEnds(code, P2H0, <<>>)

\* part_002:510 settles: await message.react(cross) inside the catch.  When
\* it rejects, the promise of the handler rejects and nothing handles it:
\* the runtime raises it as an uncaught exception and the handler of
\* part_002:287-294 runs shutdown(), in the same run.
P2ReactErrorDone(m) ==
  /\ P2Running
  /\ pc[m] = "react_error"
  /\ \E ok \in GatewayOutcomes("react") :
       IF ok
       THEN /\ pc' = [pc EXCEPT ![m] = "failed"]
            /\ h' = [h EXCEPT ![m] = P2H0]
            /\ UNCHANGED <<chatHistory, longTermMemory, userCooldowns>>
            /\ UNCHANGED <<isShuttingDown, historyFile, memoryFile,
                           histWrite, memWrite, timersActive, shutdownPc,
                           exitCode, slowResponse>>
       ELSE P2shutdown
  /\ UNCHANGED <<schedule, deployment, startup, now, apiCalls, budgetVars,
                 turnsSinceCondense>>

\* the classifier request settles (part_002:299-334); a rejected request or
\* a response without choices is caught and counts as "no".  On "yes" the
\* handler goes on to await sendTyping (part_002:493).
P2ClassifyDone(m) ==
  /\ P2Running
  /\ pc[m] = "classify"
  /\ \E r \in ClassifierReplies :
       IF r.kind = "ok" /\ ClassifierDecision(r.text)
       THEN /\ pc' = [pc EXCEPT ![m] = "typing"]
            /\ h' = [h EXCEPT ![m] =
                       [@ EXCEPT !.decisionText = toUpperCase(trim(r.text))]]
       ELSE /\ pc' = [pc EXCEPT ![m] = "suppressed"]
            /\ h' = [h EXCEPT ![m] = P2H0]
  /\ UNCHANGED <<now, chatHistory, longTermMemory, userCooldowns, apiCalls>>
  /\ P2Frame

\* generateResponse of part_002 has returned botReply
P2Replying(locals, botReply) ==
  [P2H0 EXCEPT !.msg = locals.msg, !.gateCalled = locals.gateCalled,
               !.botReply = botReply]

\* the array generateResponse holds in userHistory: the one stored under
\* the identity, or its own new array (part_002:345)
P2UserHistory(m) ==
  IF h[m].histStored THEN chatHistory[h[m].msg.id] ELSE h[m].userHistory

\* chatHistory[uid] is re-bound to a new array: every other suspended
\* invocation for the identity keeps the array `old` it holds
P2Detach(hh, m, uid, old) ==
  [k \in Msgs |->
     IF /\ k # m
        /\ pc[k] \in {"cond_summary", "cond_fact", "gen_call"}
        /\ hh[k].histStored
        /\ hh[k].msg.id = uid
     THEN [hh[k] EXCEPT !.histStored = FALSE, !.userHistory = old]
     ELSE hh[k]]

\* part_000:498-512: the timer set before generateResponse is called and
\* cleared when it has returned; part_001 and part_002 set none
P0ArmTimer(sr, t) == IF deployment = "heuristic" THEN ArmTimer(sr, t) ELSE sr

P0ClearTimer(sr) ==
  [sr EXCEPT !.timer = IF @ = "armed" THEN "cleared" ELSE @, !.armedAt = 0]

\* part_002:368-373 on the array generateResponse holds
P2PushUser(m, history) == Append(history, UserTurn(h[m].msg, now))

\* part_002:493 settles; on success generateResponse (part_002:339-373) runs
\* up to its first await: the summary request (part_002:147) when the
\* identity's log has reached SUMMARY_INTERVAL, else the generation request
\* (part_002:405).  Writing memory.knownUsers[userId] throws when the stored
\* memory has no knownUsers; the catch of part_002:433 returns the fallback.
P2TypingDone(m) ==
  /\ P2Running
  /\ pc[m] = "typing"
  /\ \E ok \in GatewayOutcomes("typing") :
       LET uid == h[m].msg.id
           histStored == uid \in DOMAIN chatHistory
           memStored == uid \in DOMAIN longTermMemory
           userHistory == IF histStored THEN chatHistory[uid] ELSE <<>>
           memory == P2RegisterUser(IF memStored THEN longTermMemory[uid]
                                    ELSE P2FreshMemory,
                                    uid, h[m].msg.username)
       IN
       IF ~ok
       THEN /\ pc' = [pc EXCEPT ![m] = "react_error"]
            /\ UNCHANGED <<chatHistory, longTermMemory, h, apiCalls,
                           slowResponse>>
       ELSE IF memStored /\ ~longTermMemory[uid].hasKnownUsers
       THEN /\ pc' = [pc EXCEPT ![m] = "replying"]
            /\ h' = [h EXCEPT ![m] = P2Replying(h[m], P2_FALLBACK)]
            /\ slowResponse' =
                 [slowResponse EXCEPT
                    ![m] = P0ClearTimer(P0ArmTimer(@, now))]
            /\ UNCHANGED <<chatHistory, longTermMemory, apiCalls>>
       ELSE /\ slowResponse' =
                 [slowResponse EXCEPT ![m] = P0ArmTimer(@, now)]
            /\ longTermMemory' =
                 IF memStored THEN MapSet(longTermMemory, uid, memory)
                 ELSE longTermMemory
            /\ apiCalls' = apiCalls + 1
            /\ IF Len(userHistory) >= PerIdSummaryInterval
               THEN /\ pc' = [pc EXCEPT ![m] = "cond_summary"]
                    /\ h' = [h EXCEPT ![m] =
                               [@ EXCEPT
                                  !.histStored = TRUE,
                                  !.memStored = memStored,
                                  !.memory = IF memStored THEN P2FreshMemory
                                             ELSE memory,
                                  !.condMemStored = memStored,
                                  !.conversationText =
                                     P2ConversationText(userHistory)]]
                    /\ UNCHANGED chatHistory
               ELSE /\ pc' = [pc EXCEPT ![m] = "gen_call"]
                    /\ chatHistory' =
                         IF histStored
                         THEN MapSet(chatHistory, uid,
                                     P2PushUser(m, userHistory))
                         ELSE chatHistory
                    /\ h' = [h EXCEPT ![m] =
                               [@ EXCEPT
                                  !.histStored = histStored,
                                  !.userHistory =
                                     IF histStored THEN <<>>
                                     ELSE P2PushUser(m, userHistory),
                                  !.memStored = memStored,
                                  !.memory = IF memStored THEN P2FreshMemory
                                             ELSE memory]]
  /\ UNCHANGED <<now, userCooldowns>>
  /\ P2FrameButTimer

\* condenseConversation has returned: part_002:364-373 re-read the stored
\* array and push the user turn onto it; the generation request follows
P2AfterCondense(m, history) ==
  /\ chatHistory' = MapSet(chatHistory, h[m].msg.id, P2PushUser(m, history))
  /\ pc' = [pc EXCEPT ![m] = "gen_call"]
  /\ apiCalls' = apiCalls + 1

\* the locals of generateResponse once it has re-read the stored array
P2Reread(locals) == [locals EXCEPT !.histStored = TRUE, !.userHistory = <<>>]

\* the summary request (part_002:147-155) settles; on success part_002:157-
\* 158 run and the fact request (part_002:161) is issued.  The memory
\* condenseConversation holds is the stored one, or its own new object.
P2CondSummaryDone(m) ==
  /\ P2Running
  /\ pc[m] = "cond_summary"
  /\ \E r \in SummaryReplies :
       LET uid == h[m].msg.id IN
       IF r.kind = "ok"
       THEN /\ pc' = [pc EXCEPT ![m] = "cond_fact"]
            /\ apiCalls' = apiCalls + 1
            /\ IF h[m].condMemStored
               THEN /\ longTermMemory' =
                         MapSet(longTermMemory, uid,
                                [longTermMemory[uid] EXCEPT
                                   !.summaries = AddSummary(@, r.text)])
                    /\ h' = [h EXCEPT ![m].newSummary = r.text]
               ELSE /\ h' = [h EXCEPT ![m].condMemory.summaries =
                                         AddSummary(@, r.text),
                                       ![m].newSummary = r.text]
                    /\ UNCHANGED longTermMemory
            /\ UNCHANGED chatHistory
       ELSE /\ P2AfterCondense(m, chatHistory[uid])
            /\ h' = [h EXCEPT ![m] = P2Reread(@)]
            /\ UNCHANGED longTermMemory
  /\ UNCHANGED <<now, userCooldowns>>
  /\ P2Frame

\* the fact request (part_002:161-169) settles; on success part_002:171-181:
\* the last turns of the array condenseConversation holds become the
\* identity's log
P2CondFactDone(m) ==
  /\ P2Running
  /\ pc[m] = "cond_fact"
  /\ \E r \in FactReplies :
       LET uid == h[m].msg.id
           held == IF h[m].condMemStored THEN longTermMemory[uid]
                   ELSE h[m].condMemory
       IN
       IF r.kind = "ok"
       THEN /\ longTermMemory' =
                 MapSet(longTermMemory, uid,
                        [held EXCEPT
                           !.facts = MergeFacts(@, ParseFacts(r.text))])
            /\ P2AfterCondense(m, SliceLast(P2UserHistory(m),
                                            PerIdSummaryInterval))
            /\ h' = [P2Detach(h, m, uid, chatHistory[uid]) EXCEPT
                       ![m] = [P2Reread(@) EXCEPT !.condResult = "ok"]]
       ELSE /\ P2AfterCondense(m, chatHistory[uid])
            /\ h' = [h EXCEPT ![m] = P2Reread(@)]
            /\ UNCHANGED longTermMemory
  /\ UNCHANGED <<now, userCooldowns>>
  /\ P2Frame

\* the generation request (part_002:405-410) settles; on success
\* part_002:412-423 store the trimmed array and the memory generateResponse
\* holds; the handler goes on to await message.reply (part_002:496)
P2GenDone(m) ==
  /\ P2Running
  /\ pc[m] = "gen_call"
  /\ \E r \in GenReplies :
       LET uid == h[m].msg.id
           pushed == Append(P2UserHistory(m), AssistantTurn(r.text, now))
       IN
       IF r.kind = "ok"
       THEN /\ chatHistory' =
                 MapSet(chatHistory, uid,
                        SliceLast(pushed, MAX_HISTORY_LENGTH))
            /\ longTermMemory' =
                 IF h[m].memStored THEN longTermMemory
                 ELSE MapSet(longTermMemory, uid, h[m].memory)
            /\ h' = [P2Detach(h, m, uid,
                               IF h[m].histStored THEN pushed
                               ELSE IF uid \in DOMAIN chatHistory
                               THEN chatHistory[uid] ELSE <<>>)
                       EXCEPT ![m] = P2Replying(h[m], r.text)]
       ELSE /\ h' = [h EXCEPT ![m] = P2Replying(h[m], P2_FALLBACK)]
            /\ UNCHANGED <<chatHistory, longTermMemory>>
  /\ pc' = [pc EXCEPT ![m] = "replying"]
  /\ slowResponse' = [slowResponse EXCEPT ![m] = P0ClearTimer(@)]
  /\ UNCHANGED <<now, userCooldowns, apiCalls>>
  /\ P2FrameButTimer

\* await message.reply (part_002:496-499) settles; part_002:502 on success
P2ReplyDone(m) ==
  /\ P2Running
  /\ pc[m] = "replying"
  /\ \E ok \in GatewayOutcomes("reply") :
       IF ok
       THEN /\ h' = [h EXCEPT ![m] = P2H0]
            /\ userCooldowns' = MapSet(userCooldowns, h[m].msg.id, now)
            /\ pc' = [pc EXCEPT ![m] = "replied"]
       ELSE /\ pc' = [pc EXCEPT ![m] = "react_error"]
            /\ UNCHANGED <<h, userCooldowns>>
  /\ UNCHANGED <<now, chatHistory, longTermMemory, apiCalls>>
  /\ P2Frame

\* a signal handler (part_002:285-294) runs shutdown()
P2Signal ==
  /\ P2Running
  /\ schedule.signals > 0
  /\ schedule' = [schedule EXCEPT !.signals = @ - 1]
  /\ \E sig \in Signals : P2shutdown
  /\ UNCHANGED <<deployment, startup, now, apiCalls, budgetVars,
                 turnsSinceCondense>>

\* discordClient.login() (part_002:524) rejects: its catch calls
\* process.exit(1) (part_002:526-533)
P2LoginFails ==
  /\ P2Running
  /\ "login" \in schedule.faults
  /\ ProcessEnds(1, P2H0, <<>>)
  /\ UNCHANGED <<schedule, deployment, startup, now, isShuttingDown,
                 timersActive, apiCalls, budgetVars, turnsSinceCondense>>

(***************************************************************************)
(* The process of a per-identity bot: every event of the gateway, the      *)
(* completion API, the file system, the clock, the timers and the signals. *)
(***************************************************************************)
NextClassifier ==
  \/ LoadHistoryDone
  \/ LoadMemoryDone
  \/ SignalDuringStartup
  \/ \E m \in Msgs : P2Arrive(m)
  \/ \E m \in Msgs : P2ReactCooldownDone(m)
  \/ \E m \in Msgs : P2ReactErrorDone(m)
  \/ \E m \in Msgs : P2ClassifyDone(m)
  \/ \E m \in Msgs : P2TypingDone(m)
  \/ \E m \in Msgs : P2CondSummaryDone(m)
  \/ \E m \in Msgs : P2CondFactDone(m)
  \/ \E m \in Msgs : P2GenDone(m)
  \/ \E m \in Msgs : P2ReplyDone(m)
  \/ \E m \in Msgs : WatchdogFires(m)
  \/ \E m \in Msgs : SnailReactDone(m)
  \/ Tick
  \/ SaveHistoryTimer
  \/ SaveMemoryTimer
  \/ HistoryWriteDone
  \/ MemoryWriteDone
  \/ P2Signal
  \/ P2LoginFails

\* the logs of two identities as read from disk: the log of u1 has reached
\* SUMMARY_INTERVAL, the log of u2 is one turn short of it or has reached it
\* too; u1 has a memory or none, u2 has none
IsolationStores ==
  { [history |-> [id \in {"u1", "u2"} |->
                    IF id = "u1" THEN LoadedHistory(P0_SUMMARY_INTERVAL)
                    ELSE LoadedHistory(n)],
     memory |-> mem] :
      n \in {P0_SUMMARY_INTERVAL - 1, P0_SUMMARY_INTERVAL},
      mem \in { <<>>,
                [id \in {"u1"} |->
                   [summaries |-> <<<<"s", "0">>>>, facts |-> <<<<"a">>>>,
                    knownUsers |-> [u \in {"u1"} |->
                                      [currentUsername |-> "ana",
                                       previousUsernames |-> <<"ana">>]],
                    hasKnownUsers |-> TRUE]] } }

\* the clock is read just before and at the end of the cooldown window of
\* the bot that runs
PerIdAroundCooldown == {PerIdCooldownMs - 1, PerIdCooldownMs}

\* the clock is read at the end of the continuity window of part_000 and
\* just after it
AroundThirtySeconds == {P0_THIRTY_SECONDS, P0_THIRTY_SECONDS + 1}

\* one of the per-identity bots is started on a loaded pair of files, or
\* on files of which any is missing or does not parse
InitClassifier ==
  \/ InitPerIdentity(PerIdentity, PerIdStores, {<<"valid", "valid">>},
                     {Calm, [Serial EXCEPT !.clock = PerIdAroundCooldown]})
  \/ InitPerIdentity({"heuristic"}, PerIdStores, {<<"valid", "valid">>},
                     {[Serial EXCEPT !.clock = AroundThirtySeconds]})
  \/ InitPerIdentity({"heuristic"}, {[history |-> <<>>, memory |-> <<>>]},
                     {<<"valid", "valid">>}, {Slow, Saving})
  \/ InitPerIdentity(PerIdentity, PerIdStores, ReadKinds \X ReadKinds,
                     {[Serial EXCEPT !.msgs = 1]})

(***************************************************************************)
(* SpecIsolation: a per-identity bot with overlapping handlers; part_000   *)
(* with the logs of two identities on disk.                                *)
(***************************************************************************)
InitIsolation ==
  \/ InitPerIdentity({"heuristic"}, IsolationStores, {<<"valid", "valid">>},
                     {Calm})
  \/ InitPerIdentity(PerIdentity, PerIdStores, {<<"valid", "valid">>}, {Calm})
  \/ InitPerIdentity({"heuristic"}, {[history |-> <<>>, memory |-> <<>>]},
                     {<<"valid", "valid">>}, {Slow, Saving})
  \/ InitPerIdentity(PerIdentity, PerIdStores, ReadKinds \X ReadKinds,
                     {[Serial EXCEPT !.msgs = 1]})

SpecIsolation == InitIsolation /\ [][NextClassifier]_vars

(***************************************************************************)
(* SpecGate: one of the four bots, chosen when the process starts.         *)
(***************************************************************************)
InitGate ==
  \/ InitApp(LoadedDisks, {Calm})
  \/ InitApp({YoungDisk}, {[Serial EXCEPT !.clock = {THIRTY_SECONDS + 1}],
                           Slow, Saving})
  \/ InitClassifier

NextGate == Next \/ NextClassifier

SpecGate == InitGate /\ [][NextGate]_vars

(***************************************************************************)
(* Claims.                                                                 *)
(***************************************************************************)
\* the invocation of handler m is between its first mutation (user
\* registration, app.js:506-517) and its last (cooldown update, app.js:660)
InWindow(m) == pc[m] \in {"cond_summary", "cond_fact", "gen_call", "replying"}

\* C1: when a completion call of condenseConversation fails (the summary
\* call, or the fact call after the summary call succeeded), the log and the
\* summaries and facts are what they were before the call.  Checked for a
\* call that ran alone, in the state in which generateResponse resumes: the
\* log is the log before the call plus the inbound turn just pushed.
C1_FailedCondensationChangesNothing ==
  \A m \in Msgs :
    ( /\ pc[m] = "gen_call"
      /\ h[m].condResult = "failed"
      /\ \A k \in Msgs \ {m} : pc[k] = "idle" )
    => /\ Len(chatHistory) = Len(h[m].preHistory) + 1
       /\ SubSeq(chatHistory, 1, Len(h[m].preHistory)) = h[m].preHistory
       /\ longTermMemory.summaries = h[m].preSummaries
       /\ longTermMemory.facts = h[m].preFacts

\* C2: when the started process exits at the end of shutdown(), with status
\* 0, no handler suspended and no earlier write still in flight, the current
\* log and the current long-term memory are what the two files hold.
C2_ShutdownWritesBothFiles ==
  [][ ( /\ startup.pc = "started"
        /\ isShuttingDown
        /\ shutdownPc = "exit_wait"
        /\ exitCode = -1
        /\ exitCode' = 0
        /\ histWrite = <<>>
        /\ memWrite = <<>>
        /\ \A m \in Msgs : ~InFlight(m) )
      => /\ historyFile' = FileOf(chatHistory)
         /\ memoryFile' = FileOf(longTermMemory) ]_vars

\* C3: chatHistory never holds more than MAX_HISTORY_LENGTH turns.
C3_HistoryNeverExceedsMax == Len(chatHistory) <= MAX_HISTORY_LENGTH

\* C4: a reply is never delivered to an identity less than COOLDOWN_MS after
\* the previous reply delivered to it (userCooldowns holds that time).
C4_RepliesAreCooldownApart ==
  [][ \A m \in Msgs :
        (pc[m] = "replying" /\ pc'[m] = "replied")
        => ~( /\ h[m].msg.id \in DOMAIN userCooldowns
              /\ now - userCooldowns[h[m].msg.id] < COOLDOWN_MS ) ]_vars

\* C5: while one handler invocation is between its first and its last
\* mutation and does not itself take the step, chatHistory, longTermMemory
\* and userCooldowns do not change.
C5_HandlersDoNotInterleave ==
  [][ \A m \in Msgs :
        (InWindow(m) /\ pc'[m] = pc[m])
        => UNCHANGED <<chatHistory, longTermMemory, userCooldowns>> ]_vars

RECURSIVE SumTokens(_)
SumTokens(messages) ==
  IF messages = <<>> THEN 0
  ELSE estimateTokens(Head(messages).content) + SumTokens(Tail(messages))

Suffix(s, k) == SubSeq(s, Len(s) - k + 1, Len(s))

\* C6: the estimated tokens of the messages optimizeTokenUsage returns sum
\* to at most the ceiling.
C6_OutputWithinCeiling ==
  bResult.done => SumTokens(bResult.out) <= bCeiling

\* something was dropped and something was kept
C6_Witness ==
  /\ bResult.done
  /\ bResult.out # <<>>
  /\ Len(bResult.out) < Len(bMessages)
  /\ SumTokens(bResult.out) < bCeiling

\* C7: optimizeTokenUsage returns the longest suffix of its input, in the
\* original order, whose estimated tokens sum to at most the ceiling; it is
\* empty when the most recent message alone exceeds the ceiling.
C7_OutputIsLongestFittingSuffix ==
  bResult.done =>
    /\ \E k \in 0..Len(bMessages) :
         /\ bResult.out = Suffix(bMessages, k)
         /\ SumTokens(Suffix(bMessages, k)) <= bCeiling
         /\ \A j \in (k + 1)..Len(bMessages) :
              SumTokens(Suffix(bMessages, j)) > bCeiling
    /\ ( /\ bMessages # <<>>
         /\ estimateTokens(bMessages[Len(bMessages)].content) > bCeiling )
       => bResult.out = <<>>

\* the kept suffix fills the ceiling exactly and an older message is dropped
C7_Witness ==
  /\ bResult.done
  /\ Len(bResult.out) >= 2
  /\ Len(bResult.out) < Len(bMessages)
  /\ SumTokens(bResult.out) = bCeiling

\* the message of invocation m mentions the bot or contains the keyword
Triggers(msg) == msg.mentions \/ includes(toLowerCase(msg.content), Keyword)

Handled(m) == pc'[m] \in {"react_cooldown", "suppressed", "typing"}

\* C8: for a message the handler handles (author not a bot, shutdown not
\* begun), arriving at time now from an identity whose last reply was
\* recorded at T = userCooldowns[id]: inside the window (now - T <
\* COOLDOWN_MS) it is not admitted; from now >= T + COOLDOWN_MS on it is
\* admitted when it mentions the bot or contains the keyword; and it is
\* suppressed by the cooldown only when its own identity is inside its window.
C8_CooldownWindow ==
  [][ \A m \in Msgs :
        (pc[m] = "idle" /\ Handled(m))
        => LET id == h'[m].msg.id
               recorded == id \in DOMAIN userCooldowns
           IN /\ (recorded /\ now - userCooldowns[id] < COOLDOWN_MS)
                   => pc'[m] = "react_cooldown"
              /\ ( /\ recorded => now - userCooldowns[id] >= COOLDOWN_MS
                   /\ Triggers(h'[m].msg) )
                   => pc'[m] = "typing"
              /\ pc'[m] = "react_cooldown"
                   => (recorded /\ now - userCooldowns[id] < COOLDOWN_MS)
    ]_vars

\* a message admitted exactly COOLDOWN_MS after its identity's last reply
C8_Witness ==
  \E m \in Msgs :
    /\ pc[m] = "typing"
    /\ h[m].msg.id \in DOMAIN userCooldowns
    /\ now = userCooldowns[h[m].msg.id] + COOLDOWN_MS

\* the texts a successful generation request returns
ReplyTexts == { r.text : r \in { g \in GenReplies : g.kind = "ok" } }

\* C11: generateResponse never throws: whatever the summary, fact and
\* generation requests do (rejection, empty choices, malformed response),
\* the invocation stays inside generateResponse or returns to the handler
\* with the model's reply text or the fallback string.
C11_GenerateResponseNeverThrows ==
  [][ \A m \in Msgs :
        ( /\ pc[m] \in {"cond_summary", "cond_fact", "gen_call"}
          /\ pc'[m] # pc[m]
          /\ pc'[m] # "dead" )
        => /\ pc'[m] \in {"cond_fact", "gen_call", "replying"}
           /\ pc'[m] = "replying"
                => h'[m].botReply \in ReplyTexts \cup {FALLBACK} ]_vars

\* generateResponse has returned the fallback after both its condensation
\* and its generation request failed on a full log
C11_Witness ==
  \E m \in Msgs :
    /\ deployment = "shared"
    /\ pc[m] = "replying"
    /\ h[m].botReply = FALLBACK
    /\ Len(chatHistory) > MAX_HISTORY_LENGTH

\* C12: when the generation request fails, generateResponse returns the
\* fallback and leaves the log as it was when the request was issued, and
\* the step that issued it appended the inbound user turn as the last turn.
C12_FailedGenerationAddsOnlyUserTurn ==
  [][ \A m \in Msgs :
        /\ ( /\ pc[m] = "gen_call"
             /\ pc'[m] \notin {"gen_call", "dead"}
             /\ h'[m].botReply \notin ReplyTexts )
           => /\ pc'[m] = "replying"
              /\ h'[m].botReply = FALLBACK
              /\ chatHistory' = chatHistory
        /\ ( /\ pc[m] \in {"typing", "cond_summary", "cond_fact"}
             /\ pc'[m] = "gen_call" )
           => /\ chatHistory' # <<>>
              /\ chatHistory'[Len(chatHistory')] = UserTurn(h[m].msg, now)
              /\ Len(chatHistory') <= Len(chatHistory) + 1 ]_vars

\* a generation request failed while the log ended with the user turn of the
\* message, and the fallback is being sent
C12_Witness ==
  \E m \in Msgs :
    /\ deployment = "shared"
    /\ pc[m] = "replying"
    /\ h[m].botReply = FALLBACK
    /\ chatHistory # <<>>
    /\ chatHistory[Len(chatHistory)] = UserTurn(h[m].msg, now)

\* the step in which condenseConversation of invocation m returns after
\* both of its requests succeeded
CondensationSucceeds(m) ==
  /\ pc[m] = "cond_fact"
  /\ pc'[m] = "gen_call"
  /\ h'[m].condResult = "ok"

\* the log as condenseConversation left it: the step that returns from it
\* also pushes the inbound user turn
LogAfterCondensation == SubSeq(chatHistory', 1, Len(chatHistory') - 1)

\* C13: after a successful condensation the log holds exactly
\* SUMMARY_INTERVAL turns, and they are the turns whose text was sent to be
\* summarised.
C13_LogIsCondensationWindow ==
  [][ \A m \in Msgs :
        CondensationSucceeds(m)
        => /\ Len(LogAfterCondensation) = SUMMARY_INTERVAL
           /\ ConversationText(LogAfterCondensation) = h[m].conversationText
    ]_vars

\* C14: when a condensation has succeeded its new summary is the last
\* element of summaries; the step that adds a summary appends it and drops
\* the oldest entry when there were already 3; summaries never has more
\* than 3 entries.
C14_NewSummaryIsLastOfAtMostThree ==
  [][ /\ Len(longTermMemory'.summaries) <= 3
      /\ \A m \in Msgs :
           /\ CondensationSucceeds(m)
              => LET after == longTermMemory'.summaries IN
                 /\ after # <<>>
                 /\ after[Len(after)] = h[m].newSummary
           /\ (pc[m] = "cond_summary" /\ pc'[m] = "cond_fact")
              => LET before == longTermMemory.summaries
                     kept == IF Len(before) < 3 THEN before ELSE Tail(before)
                 IN longTermMemory'.summaries =
                      Append(kept, h'[m].newSummary) ]_vars

\* the entries of s without repetition, each at its first place
FirstOccurrences(s) ==
  LET idx == { i \in 1..Len(s) : \A j \in 1..(i - 1) : s[j] # s[i] }
      at == [k \in 1..Cardinality(idx) |->
               CHOOSE i \in idx : Cardinality({ j \in idx : j < i }) = k - 1]
  IN [k \in 1..Cardinality(idx) |-> s[at[k]]]

\* the last n entries of s
LastEntries(s, n) ==
  LET len == IF Len(s) < n THEN Len(s) ELSE n
  IN [k \in 1..len |-> s[Len(s) - len + k]]

\* C15: after a successful condensation facts has no duplicate and at most
\* 10 entries: it is the last 10 of the merge, without repetition, of the
\* facts held before with the new non-blank reply lines, so what is evicted
\* is the earliest in merge order.
C15_FactsAreLastTenOfDedupedMerge ==
  [][ \A m \in Msgs :
        CondensationSucceeds(m)
        => LET after == longTermMemory'.facts
               new == h'[m].newFacts
           IN /\ Len(after) <= 10
              /\ \A i, j \in 1..Len(after) : after[i] = after[j] => i = j
              /\ \A i \in 1..Len(new) : new[i] # <<>> /\ trim(new[i]) = new[i]
              /\ after = LastEntries(
                            FirstOccurrences(longTermMemory.facts \o new), 10)
    ]_vars

\* a condensation has merged a repeated and a new fact into 10 held facts:
\* the earliest fact is gone and the new one is last
C15_Witness ==
  \E m \in Msgs :
    /\ pc[m] = "gen_call"
    /\ h[m].condResult = "ok"
    /\ h[m].newFacts = << <<"a">>, <<"b">> >>
    /\ h[m].preFacts[1] = <<"a">>
    /\ Len(longTermMemory.facts) = 10
    /\ longTermMemory.facts[10] = <<"b">>
    /\ \A i \in 1..10 : longTermMemory.facts[i] # <<"a">>

\* C17: between two consecutive successful condensations of the shared
\* log at least SUMMARY_INTERVAL turns are pushed onto it: when a
\* condensation succeeds, either none succeeded before or at least
\* SUMMARY_INTERVAL turns were pushed since the last one.
C17_CondensationOncePerInterval ==
  [][ \A m \in Msgs :
        CondensationSucceeds(m)
        => (turnsSinceCondense = -1
            \/ turnsSinceCondense >= SUMMARY_INTERVAL) ]_vars

\* the text holds the letters y, u, e in a row, in either case
ContainsYue(text) ==
  \E i \in 1..(Len(text) - 2) :
    /\ text[i] \in {"y", "Y"}
    /\ text[i + 1] \in {"u", "U"}
    /\ text[i + 2] \in {"e", "E"}

\* C18: a message the handler of app.js handles (author not a bot, shutdown
\* not begun) whose sender is outside the cooldown window is admitted
\* whenever it mentions the bot or its text, lower-cased, contains "yue":
\* shouldRespond is called and answers yes, the handler goes on to
\* sendTyping, and when that succeeds generateResponse issues a completion
\* request.
C18_MentionOrKeywordIsAdmitted ==
  [][ \A m \in Msgs :
        /\ ( /\ pc[m] = "idle"
             /\ Handled(m)
             /\ ~( /\ h'[m].msg.id \in DOMAIN userCooldowns
                   /\ now - userCooldowns[h'[m].msg.id] < COOLDOWN_MS )
             /\ (h'[m].msg.mentions \/ ContainsYue(h'[m].msg.content)) )
           => (pc'[m] = "typing" /\ h'[m].gateCalled)
        /\ (pc[m] = "typing" /\ pc'[m] \notin {"typing", "react_error", "dead"})
           => /\ pc'[m] \in {"cond_summary", "gen_call"}
              /\ apiCalls' = apiCalls + 1
    ]_vars

\* a message with the keyword in upper case and no mention was admitted,
\* and the reply generated for it is about to be sent
C18_Witness ==
  \E m \in Msgs :
    /\ deployment = "shared"
    /\ pc[m] = "replying"
    /\ h[m].msg.content = <<"Y", "u", "e", "?">>
    /\ ~h[m].msg.mentions
    /\ h[m].botReply \in ReplyTexts

\* the step is the arrival at app.js of a message the handler handles, from
\* a sender outside the cooldown window, with no mention and no keyword
ArrivesWithoutTrigger(m) ==
  /\ deployment = "shared"
  /\ pc[m] = "idle"
  /\ Handled(m)
  /\ ~( /\ h'[m].msg.id \in DOMAIN userCooldowns
        /\ now - userCooldowns[h'[m].msg.id] < COOLDOWN_MS )
  /\ ~h'[m].msg.mentions
  /\ ~ContainsYue(h'[m].msg.content)

\* the most recent turn of the shared log was recorded at most 30 s ago
RecentSharedTurn ==
  /\ chatHistory # <<>>
  /\ now - chatHistory[Len(chatHistory)].timestamp <= THIRTY_SECONDS

\* C19 as stated: in app.js a message with no mention and no keyword from a
\* sender outside the cooldown window is admitted when the most recent turn
\* of the shared log was recorded at most 30 seconds before it.
C19_ContinuityAdmits ==
  [][ \A m \in Msgs :
        (ArrivesWithoutTrigger(m) /\ RecentSharedTurn)
        => pc'[m] = "typing" ]_vars

\* C19 amended: in app.js the continuity heuristic is not an input of the
\* gate decision: a message with no mention and no keyword from a sender
\* outside the cooldown window is suppressed even when the most recent turn
\* of the shared log was recorded at most 30 seconds before it.
C19_ContinuityIsNotAnInput ==
  [][ \A m \in Msgs :
        (ArrivesWithoutTrigger(m) /\ RecentSharedTurn)
        => /\ pc'[m] = "suppressed"
           /\ h'[m].gateCalled
           /\ recentHistory(chatHistory, now) # <<>> ]_vars

\* a message with no mention and no keyword was suppressed although the
\* bot had replied in the shared log within the last 30 seconds
C19_Witness ==
  \E m \in Msgs :
    /\ deployment = "shared"
    /\ pc[m] = "suppressed"
    /\ ~h[m].msg.mentions
    /\ ~ContainsYue(h[m].msg.content)
    /\ chatHistory # <<>>
    /\ chatHistory[Len(chatHistory)].role = "assistant"
    /\ chatHistory[Len(chatHistory)].content \in ReplyTexts
    /\ now - chatHistory[Len(chatHistory)].timestamp <= THIRTY_SECONDS

\* the cooldown window of the program that runs
CooldownOf == IF deployment = "shared" THEN COOLDOWN_MS ELSE PerIdCooldownMs

\* the step is the arrival, at a bot with the heuristic gate (app.js,
\* part_000), of a message the handler handles, with no mention and no
\* keyword, while every turn of its scope (the shared log, the log of the
\* sender) is more than 30 s old
ArrivesQuiet(m) ==
  /\ deployment \in {"shared", "heuristic"}
  /\ pc[m] = "idle"
  /\ Handled(m)
  /\ ~h'[m].msg.mentions
  /\ ~ContainsYue(h'[m].msg.content)
  /\ LET id == h'[m].msg.id
         log == IF deployment = "shared" THEN chatHistory
                ELSE IF id \in DOMAIN chatHistory THEN chatHistory[id]
                ELSE <<>>
     IN \A i \in 1..Len(log) : now - log[i].timestamp > 30000

\* C20: in the bots with the heuristic gate a message with no mention, no
\* keyword and no turn in its scope within the last 30 seconds is not
\* admitted: the gate suppresses it (its sender being outside the cooldown
\* window), its handling issues no completion request and ends there, with
\* no reply.
C20_QuietMessageIsSuppressed ==
  [][ \A m \in Msgs :
        /\ ArrivesQuiet(m)
           => /\ pc'[m] \in {"suppressed", "react_cooldown"}
              /\ pc'[m] = "suppressed" <=> h'[m].gateCalled
              /\ pc'[m] = "react_cooldown"
                   <=> ( /\ h'[m].msg.id \in DOMAIN userCooldowns
                         /\ now - userCooldowns[h'[m].msg.id] < CooldownOf )
              /\ h'[m].botReply = <<>>
              /\ apiCalls' = apiCalls
        /\ (pc[m] = "suppressed" /\ pc'[m] # pc[m])
           => (pc'[m] = "dead" /\ apiCalls' = apiCalls)
    ]_vars

\* app.js has suppressed a message with no mention and no keyword while
\* the shared log holds turns, all more than 30 s old
C20_Witness ==
  \E m \in Msgs :
    /\ deployment = "shared"
    /\ pc[m] = "suppressed"
    /\ ~h[m].msg.mentions
    /\ ~ContainsYue(h[m].msg.content)
    /\ chatHistory # <<>>
    /\ \A i \in 1..Len(chatHistory) : now - chatHistory[i].timestamp > 30000

\* SUMMARY_INTERVAL of the program that runs
IntervalOf ==
  IF deployment = "shared" THEN SUMMARY_INTERVAL ELSE PerIdSummaryInterval

\* the log of the scope of the message of invocation m: the shared log, or
\* the log stored under the sender
ScopeLog(m) ==
  IF deployment = "shared" THEN chatHistory
  ELSE IF h[m].msg.id \in DOMAIN chatHistory THEN chatHistory[h[m].msg.id]
  ELSE <<>>

\* the array generateResponse of an invocation with these locals pushes
\* onto
HeldLog(history, locals) ==
  IF deployment = "shared" THEN history
  ELSE IF locals.histStored THEN history[locals.msg.id]
  ELSE locals.userHistory

\* sendTyping has succeeded and generateResponse runs for invocation m
GenerateResponseStarts(m) ==
  pc[m] = "typing" /\ pc'[m] \in {"cond_summary", "gen_call", "replying"}

\* C16: generateResponse invokes condensation exactly when the log of the
\* scope, before the inbound turn is appended, has SUMMARY_INTERVAL turns or
\* more; the start of condensation and its summary step append nothing, and
\* the inbound turn is the last entry of the log when the generation request
\* is issued.
C16_CondensationIffIntervalReached ==
  [][ \A m \in Msgs :
        /\ GenerateResponseStarts(m)
           => /\ pc'[m] = "cond_summary" <=> Len(ScopeLog(m)) >= IntervalOf
              /\ pc'[m] = "cond_summary" => chatHistory' = chatHistory
        /\ (pc[m] = "cond_summary" /\ pc'[m] = "cond_fact")
           => chatHistory' = chatHistory
        /\ (pc[m] \in {"typing", "cond_summary", "cond_fact"}
              /\ pc'[m] = "gen_call")
           => LET log == HeldLog(chatHistory', h'[m]) IN
              /\ log # <<>>
              /\ log[Len(log)] = UserTurn(h[m].msg, now)
    ]_vars

\* the step is the arrival of a message the handler of invocation m handles
\* (author not a bot, shutdown not begun) from an identity inside its window
ArrivesInCooldown(m) ==
  /\ pc[m] = "idle"
  /\ pc'[m] \in {"react_cooldown", "suppressed", "typing", "ignored_local",
                 "classify"}
  /\ h'[m].msg.id \in DOMAIN userCooldowns
  /\ now - userCooldowns[h'[m].msg.id] < CooldownOf

\* C9 as stated: in both programs a message from an identity inside its
\* cooldown window gets the cooldown reaction whatever it contains, and
\* neither shouldRespond nor the completion API is invoked for it.
C9_CooldownPrecedesGating ==
  [][ \A m \in Msgs :
        ArrivesInCooldown(m)
        => /\ pc'[m] = "react_cooldown"
           /\ ~h'[m].gateCalled
           /\ apiCalls' = apiCalls ]_vars

\* C9 amended: for a message from an identity inside its cooldown window
\* neither shouldRespond nor the completion API is invoked, in both
\* programs; it gets the cooldown reaction in app.js (and in part_000 and
\* part_001) whatever it contains, and in part_002 exactly when it contains
\* the keyword or mentions the bot: there the local check comes first and
\* drops any other message silently.
C9_CooldownPrecedesGateNotLocalCheck ==
  [][ \A m \in Msgs :
        /\ ArrivesInCooldown(m)
           => /\ ~h'[m].gateCalled
              /\ apiCalls' = apiCalls
              /\ pc'[m] \in {"react_cooldown", "ignored_local"}
              /\ pc'[m] = "react_cooldown"
                   <=> (deployment # "classifier" \/ Triggers(h'[m].msg))
        /\ (pc[m] = "react_cooldown" /\ pc'[m] # pc[m])
           => apiCalls' = apiCalls ]_vars

\* part_002 has dropped, at its local check, a message of an identity inside
\* its cooldown window
C9_Witness ==
  \E m \in Msgs :
    /\ deployment = "classifier"
    /\ pc[m] = "ignored_local"
    /\ h[m].msg.id \in DOMAIN userCooldowns
    /\ now - userCooldowns[h[m].msg.id] < P2_COOLDOWN_MS

\* C10: a call of saveHistory or saveLongTermMemory made with isShuttingDown
\* set starts no file write.
C10_NoWriteStartsAfterShutdownBegan ==
  [][ isShuttingDown'
      => (Len(histWrite') <= Len(histWrite)
          /\ Len(memWrite') <= Len(memWrite)) ]_vars

\* shutdown() has made both save calls, with the files stale, and no write
\* is in flight
C10_Witness ==
  /\ isShuttingDown
  /\ shutdownPc = "destroying"
  /\ histWrite = <<>>
  /\ memWrite = <<>>
  /\ historyFile # FileOf(chatHistory)
  /\ memoryFile # FileOf(longTermMemory)

\* C21: once the log is loaded, every change to the shared log, by any step
\* of any handler or condensation, keeps a suffix of the log (turns are
\* removed from the front only) and appends at most one turn at the end: no
\* turn is removed while an older one is kept.
C21_LogChangesAtItsEndsOnly ==
  [][ startup.pc = "started"
      => \E k \in 0..Len(chatHistory) :
           LET kept == SubSeq(chatHistory, k + 1, Len(chatHistory)) IN
           /\ Len(chatHistory') \in {Len(kept), Len(kept) + 1}
           /\ SubSeq(chatHistory', 1, Len(kept)) = kept ]_vars

\* C22: when a persisted file is missing or is not JSON at startup,
\* loadHistory leaves the log empty and loadLongTermMemory leaves the memory
\* at its empty default (no known users, no summaries, no facts); the load
\* step does not end the process and the initialisation goes on to its next
\* position.
C22_FailedLoadGivesEmptyDefault ==
  [][ /\ (startup.pc = "load_history" /\ startup'.pc # "load_history"
            /\ startup.historyRead # "valid")
         => /\ chatHistory' = <<>>
            /\ startup'.pc = "load_memory"
            /\ exitCode' = -1
      /\ (startup.pc = "load_memory" /\ startup'.pc # "load_memory"
            /\ startup.memoryRead # "valid")
         => /\ longTermMemory'.knownUsers = <<>>
            /\ longTermMemory'.summaries = <<>>
            /\ longTermMemory'.facts = <<>>
            /\ startup'.pc = "started"
            /\ timersActive'
            /\ exitCode' = -1 ]_vars

\* both files held text that is not JSON; the initialisation is done with an
\* empty log and an empty memory, and a message has been admitted
C22_Witness ==
  /\ startup = [pc |-> "started", historyRead |-> "invalid",
                memoryRead |-> "invalid"]
  /\ historyFile.kind = "invalid"
  /\ memoryFile = CutShort(FullMemory)
  /\ chatHistory = <<>>
  /\ longTermMemory = EmptyMemory
  /\ \E m \in Msgs : pc[m] = "typing"

\* C23: once shutdown() has begun (on SIGINT, SIGTERM or an uncaught
\* exception, during the initialisation, between messages or while a
\* handler is suspended) the process eventually exits.  It exits with
\* status 0 only when the sequence ran to its end (destroy() resolved and
\* the 500 ms wait elapsed), with status 1 when it exits before that end,
\* and, in a run whose login is not rejected, with status 0 whenever the
\* sequence ran to its end.
C23_ShutdownEndsInExit ==
  /\ isShuttingDown ~> exitCode # -1
  /\ [][ (exitCode = -1 /\ exitCode' # -1 /\ isShuttingDown')
         => /\ exitCode' \in {0, 1}
            /\ exitCode' = 0 => shutdownPc = "exit_wait"
            /\ (shutdownPc = "exit_wait" /\ "login" \notin schedule.faults)
               => exitCode' = 0 ]_vars

\* the process has exited with status 0 after handling a message
C23_Witness ==
  /\ exitCode = 0
  /\ isShuttingDown
  /\ shutdownPc = "exited"
  /\ apiCalls > 0

\* the position of the shutdown sequence, in the order of its steps
ShutdownRank(p) ==
  CASE p = "none" -> 0
    [] p = "destroying" -> 1
    [] p = "exit_wait" -> 2
    [] OTHER -> 3

\* C24: isShuttingDown is never reset once set, and the shutdown sequence
\* runs at most once however many signals or uncaught exceptions arrive:
\* once the flag is set no step clears the timers again, makes a save call
\* again, or takes the sequence back to an earlier step.
C24_ShutdownRunsOnce ==
  [][ /\ isShuttingDown => isShuttingDown'
      /\ ShutdownRank(shutdownPc') >= ShutdownRank(shutdownPc)
      /\ (shutdownPc = "none" /\ shutdownPc' # "none") => ~isShuttingDown
      /\ isShuttingDown
         => /\ ~timersActive'
            /\ Len(histWrite') <= Len(histWrite)
            /\ Len(memWrite') <= Len(memWrite) ]_vars

\* the sequence is waiting for its 500 ms timer while a handler invocation
\* is still suspended: signals and uncaught exceptions can arrive here
C24_Witness ==
  /\ isShuttingDown
  /\ shutdownPc = "exit_wait"
  /\ ~timersActive
  /\ \E m \in Msgs : pc[m] = "react_error"

\* the handling of the message of invocation m ends with this step
HandlingEnds(m) ==
  /\ pc[m] \notin {"suppressed", "cooled", "replied", "failed", "rejected"}
  /\ pc'[m] \in {"suppressed", "cooled", "replied", "failed", "rejected"}

\* the message invocation m handles in this step
HandledMsg(m) == IF pc[m] = "idle" THEN h'[m].msg ELSE h[m].msg

\* C25: after a non-bot inbound message has been handled, knownUsers holds
\* a record for its sender whose currentUsername is the sender's present
\* username.
C25_SenderIsKnownAfterHandling ==
  [][ \A m \in Msgs :
        (deployment = "shared" /\ HandlingEnds(m))
        => LET msg == HandledMsg(m)
               known == longTermMemory'.knownUsers
           IN /\ msg.id \in DOMAIN known
              /\ known[msg.id].currentUsername = msg.username ]_vars


\* C26: the messageCreate handler never rejects: every failure of a gateway
\* operation or of generation is absorbed inside the handler, so no
\* invocation ends with a rejection left for the runtime to raise as an
\* uncaught fault.
C26_HandlerNeverRejects ==
  \A m \in Msgs : pc[m] # "rejected"


\* C29: estimateTokens depends on the length of the text only, is
\* monotonically non-decreasing in that length, returns 0 for the empty text
\* and equals the ceiling of length / 4 (the least t with 4 * t >= length).
C29_EstimateIsCeilingOfQuarterLength ==
  \A i \in 1..Len(bMessages) :
    LET text == bMessages[i].content
        t == estimateTokens(text)
    IN /\ 4 * t >= Len(text)
       /\ 4 * (t - 1) < Len(text)
       /\ (text = <<>> => t = 0)
       /\ \A j \in 1..Len(bMessages) :
            LET other == bMessages[j].content IN
            /\ Len(text) = Len(other) => t = estimateTokens(other)
            /\ Len(text) <= Len(other) => t <= estimateTokens(other)

\* the budgeter has run on a list holding the empty text and a text whose
\* length is not a multiple of 4
C29_Witness ==
  /\ bResult.done
  /\ \E i, j \in 1..Len(bMessages) :
       /\ bMessages[i].content = <<>>
       /\ Len(bMessages[j].content) % 4 = 1


\* the turn is the user turn of the message, whenever it was recorded
IsUserTurnOf(turn, msg) ==
  /\ turn.role = "user"
  /\ turn.username = msg.tag
  /\ turn.content = msg.content

\* C30: every non-bot inbound message, from any identity, is recorded as a
\* turn of chatHistory: when its handling ends the shared log holds a user
\* turn with the sender's tag and the message's content.
C30_EveryMessageIsRecorded ==
  [][ \A m \in Msgs :
        (deployment = "shared" /\ HandlingEnds(m))
        => \E i \in 1..Len(chatHistory') :
             IsUserTurnOf(chatHistory'[i], HandledMsg(m)) ]_vars


\* C27: the slow indicator is attached only by a watchdog that fired, which
\* it does only when generateResponse is still pending TIMEOUT_MS after the
\* timer was armed; the firing changes nothing of the handler or the pending
\* completion call, whose reply is handed to message.reply all the same
\* when the call settles in the living process.
C27_WatchdogOnlyMarksSlowCalls ==
  [][ \A m \in Msgs :
        LET sr == slowResponse[m] IN
        /\ (~sr.indicator /\ slowResponse'[m].indicator)
           => sr.timer = "fired" /\ sr.react = "pending"
        /\ (sr.timer # "fired" /\ slowResponse'[m].timer = "fired")
           => /\ now - sr.armedAt >= TIMEOUT_MS
              /\ GenPending(m)
              /\ UNCHANGED <<pc, h, chatHistory, longTermMemory, apiCalls>>
        /\ ( /\ sr.timer = "fired"
              /\ pc[m] = "gen_call"
              /\ pc'[m] # "gen_call"
              /\ exitCode' = -1 )
           => /\ pc'[m] = "replying"
              /\ h'[m].botReply # <<>>
              /\ Len(chatHistory') > Len(chatHistory)
                 => h'[m].botReply = chatHistory'[Len(chatHistory')].content
      ]_vars

\* a handler whose watchdog fired and attached the indicator has delivered
\* the reply of its completion call
C27_Witness ==
  \E m \in Msgs :
    /\ slowResponse[m].timer = "fired"
    /\ slowResponse[m].react = "done"
    /\ pc[m] = "replied"
    /\ chatHistory[Len(chatHistory)].role = "assistant"

\* C28: once generateResponse has settled no slow indicator is attached to
\* the message any more, and none is on the message when the handler has
\* finished.
C28_NoIndicatorOnceSettled ==
  [][ \A m \in Msgs :
        /\ (GenSettled(m) /\ slowResponse'[m].indicator)
           => slowResponse[m].indicator
        /\ pc'[m] \in {"replied", "failed", "rejected"}
           => ~slowResponse'[m].indicator ]_vars


\* C31: in the classifier-gated bots the gate fails closed: the handler goes
\* on to reply only when the classifier's text, trimmed and upper-cased, is
\* exactly "SÍ"; on every other outcome of the classification call the
\* message is suppressed with the log, the memory, the cooldown record and
\* the number of completion requests unchanged, and a suppressed message is
\* never taken up again.
C31_GateFailsClosed ==
  [][ \A m \in Msgs :
        deployment \in {"classifier", "contextual"}
        => /\ (pc[m] = "classify" /\ pc'[m] # "classify")
              => \/ /\ pc'[m] = "typing"
                    /\ h'[m].decisionText = <<"S", "Í">>
                 \/ /\ pc'[m] = "suppressed"
                    /\ UNCHANGED <<chatHistory, longTermMemory,
                                   userCooldowns, apiCalls>>
                 \/ pc'[m] = "dead"
           /\ pc[m] = "suppressed" => pc'[m] \in {"suppressed", "dead"}
      ]_vars

\* the classifier of part_001 was asked and the message was suppressed
C31_Witness ==
  /\ deployment = "contextual"
  /\ apiCalls = 1
  /\ \E m \in Msgs : pc[m] = "suppressed"


\* the handler of invocation m is suspended inside condenseConversation
Condensing(m) == pc[m] \in {"cond_summary", "cond_fact"}

\* C32: at most one condensation of the shared scope is in flight at any
\* time.
C32_OneCondensationInFlight ==
  deployment = "shared"
  => \A m, k \in Msgs : (Condensing(m) /\ Condensing(k)) => m = k


\* the knownUsers maps a memory state holds, by scope: the one map of the
\* shared memory, or the map inside each identity's memory
KnownUsersMaps(memory) ==
  IF deployment = "shared"
  THEN [scope \in {"shared"} |-> memory.knownUsers]
  ELSE [scope \in {u \in DOMAIN memory : memory[u].hasKnownUsers} |->
          memory[scope].knownUsers]

\* every record lists its current username among its previous usernames,
\* once each
KnownUsersWellFormed ==
  LET maps == KnownUsersMaps(longTermMemory) IN
  \A scope \in DOMAIN maps : \A id \in DOMAIN maps[scope] :
    LET rec == maps[scope][id] IN
    /\ InSeq(rec.currentUsername, rec.previousUsernames)
    /\ \A i, j \in 1..Len(rec.previousUsernames) :
         rec.previousUsernames[i] = rec.previousUsernames[j] => i = j

\* while the process runs no record disappears and no list loses an entry
KnownUsersKept ==
  exitCode' = -1
  => LET old == KnownUsersMaps(longTermMemory)
         new == KnownUsersMaps(longTermMemory')
     IN \A scope \in DOMAIN old : \A id \in DOMAIN old[scope] :
          /\ scope \in DOMAIN new
          /\ id \in DOMAIN new[scope]
          /\ \A i \in 1..Len(old[scope][id].previousUsernames) :
               InSeq(old[scope][id].previousUsernames[i],
                     new[scope][id].previousUsernames)

\* C33: in every reachable state every record of knownUsers has a
\* previousUsernames list without duplicates that contains its
\* currentUsername; a record, once created, is never removed and its
\* previousUsernames never loses an entry.
C33_KnownUsersRecordsGrowOnly ==
  /\ []KnownUsersWellFormed
  /\ [][KnownUsersKept]_vars


\* the system persona is among the messages sent to the completion API
PersonaSent == \E i \in 1..Len(bResult.out) : bResult.out[i].role = "system"

\* C34: the system persona, first in the candidate list, is sent to the
\* completion API if and only if the whole list fits the token ceiling:
\* whenever the budgeter drops any message the persona is among the dropped
\* ones.
C34_PersonaSentIffAllFits ==
  (bResult.done /\ bMessages # <<>>)
  => /\ PersonaSent <=> SumTokens(bMessages) <= bCeiling
     /\ Len(bResult.out) < Len(bMessages) => ~PersonaSent
     /\ PersonaSent => bResult.out = bMessages

\* the turns that were kept would have left room for the persona's text, yet
\* the persona was dropped with an older turn
C34_Witness ==
  /\ bResult.done
  /\ Len(bMessages) = 3
  /\ Len(bResult.out) = 1
  /\ ~PersonaSent
  /\ SumTokens(bResult.out) + estimateTokens(bMessages[1].content) <= bCeiling


\* the generation request of invocation m fails in this step and
\* generateResponse returns its fallback
GenerationFails(m) ==
  /\ pc[m] = "gen_call"
  /\ pc'[m] = "replying"
  /\ h'[m].botReply = P2_FALLBACK

\* C35: in the per-identity bots, when the generation request fails, the
\* log stored for the identity afterwards ends with the inbound user turn
\* and nothing else was appended, also for an identity that had no log
\* before this message.
C35_FailedGenerationKeepsUserTurn ==
  [][ \A m \in Msgs :
        (deployment \in PerIdentity /\ GenerationFails(m))
        => LET uid == h[m].msg.id IN
           /\ uid \in DOMAIN chatHistory'
           /\ chatHistory'[uid] # <<>>
           /\ IsUserTurnOf(chatHistory'[uid][Len(chatHistory'[uid])],
                           h[m].msg)
           /\ chatHistory' = chatHistory ]_vars


\* what a map holds under an identity, if anything
EntryOf(map, id) == IF id \in DOMAIN map THEN <<map[id]>> ELSE <<>>

\* C36: in the per-identity bot a step of the handler of one identity never
\* changes the log or the memory stored for another identity, however the
\* handlers of the two identities interleave.  (The end of the process is
\* not a step of a handler.)
C36_OtherIdentitiesUntouched ==
  [][ \A m \in Msgs :
        (pc'[m] # pc[m] /\ exitCode' = -1)
        => LET a == IF pc[m] = "idle" THEN h'[m].msg.id ELSE h[m].msg.id IN
           \A b \in {"u1", "u2", "b1"} \ {a} :
             /\ EntryOf(chatHistory', b) = EntryOf(chatHistory, b)
             /\ EntryOf(longTermMemory', b) = EntryOf(longTermMemory, b)
      ]_vars

\* the handler of one identity has pushed its turn after its condensation
\* while the handler of another identity is inside its own condensation
C36_Witness ==
  \E m, k \in Msgs :
    /\ pc[m] = "gen_call"
    /\ pc[k] = "cond_fact"
    /\ h[m].msg.id # h[k].msg.id
    /\ Len(chatHistory[h[m].msg.id]) = P0_SUMMARY_INTERVAL + 1


\* the generation request of invocation m succeeds in this step, after a
\* condensation that succeeded inside the same generateResponse call
GenerationSucceedsAfterCondensation(m) ==
  /\ pc[m] = "gen_call"
  /\ pc'[m] = "replying"
  /\ h'[m].botReply # P2_FALLBACK
  /\ h[m].condResult = "ok"

\* C37: in the per-identity bots, after a generateResponse call during which
\* condensation succeeded and generation succeeded, the summary that
\* condensation produced is the last entry of the summaries stored for the
\* identity, also when the identity had a log of at least SUMMARY_INTERVAL
\* turns and no long-term memory.
C37_SummarySurvivesGeneration ==
  [][ \A m \in Msgs :
        (deployment \in PerIdentity /\ GenerationSucceedsAfterCondensation(m))
        => LET uid == h[m].msg.id IN
           /\ uid \in DOMAIN longTermMemory'
           /\ longTermMemory'[uid].summaries # <<>>
           /\ longTermMemory'[uid].summaries[
                Len(longTermMemory'[uid].summaries)] = h[m].newSummary
      ]_vars


\* C38: handling a message that is ignored (sent by a bot, or received after
\* shutdown began) or suppressed (by the cooldown or by the gate) leaves
\* chatHistory, longTermMemory and userCooldowns unchanged; userCooldowns
\* changes only at the end of a handler run whose reply, model text or
\* fallback, was delivered, and then only for the sender of that message.
C38_OnlyDeliveredRepliesLeaveTraces ==
  [][ exitCode' = -1
      => /\ \A m \in Msgs :
              ( \/ /\ pc[m] = "idle"
                   /\ pc'[m] \in {"ignored", "suppressed", "react_cooldown"}
                \/ /\ pc[m] = "react_cooldown"
                   /\ pc'[m] # pc[m] )
              => UNCHANGED <<chatHistory, longTermMemory, userCooldowns>>
         /\ userCooldowns' # userCooldowns
              => \E m \in Msgs :
                   /\ pc[m] = "replying"
                   /\ pc'[m] = "replied"
                   /\ h[m].botReply \in ReplyTexts \cup {FALLBACK}
                   /\ DOMAIN userCooldowns'
                        = DOMAIN userCooldowns \cup {h[m].msg.id}
                   /\ userCooldowns'[h[m].msg.id] = now
                   /\ \A id \in DOMAIN userCooldowns \ {h[m].msg.id} :
                        userCooldowns'[id] = userCooldowns[id]
    ]_vars

\* one message was suppressed by the gate, another was answered and its
\* sender's cooldown recorded
C38_Witness ==
  /\ deployment = "shared"
  /\ \E m, k \in Msgs : pc[m] = "suppressed" /\ pc[k] = "replied"
  /\ userCooldowns # <<>>


\* the run is one in which the typing and reply requests resolve
RepliesCanBeDelivered == schedule.faults \cap {"typing", "reply"} = {}

\* a shutdown has begun or the process has ended
ProcessEnding == isShuttingDown \/ exitCode # -1

\* C39: every admitted message eventually receives exactly one reply, the
\* model's text or the fallback string, provided every completion request
\* settles, the typing and reply gateway operations succeed and no shutdown
\* begins: in a run whose typing and reply requests resolve, an invocation
\* that awaits sendTyping reaches the end of a delivered reply unless a
\* shutdown begins or the process is ended, and stays there while the
\* process lives.
C39_AdmittedMessageIsAnswered ==
  /\ \A m \in Msgs :
       (pc[m] = "typing" /\ RepliesCanBeDelivered)
         ~> (pc[m] = "replied" \/ ProcessEnding)
  /\ [][ \A m \in Msgs :
           /\ (pc[m] = "replied" /\ exitCode' = -1)
              => pc'[m] = "replied"
           /\ pc'[m] = "replied" /\ pc[m] # "replied"
              => /\ pc[m] = "replying"
                 /\ h[m].botReply \in ReplyTexts \cup {FALLBACK} ]_vars

\* two admitted messages were answered, the later one with the fallback
\* after its generation request failed
C39_Witness ==
  /\ RepliesCanBeDelivered
  /\ ~ProcessEnding
  /\ \A m \in Msgs : pc[m] = "replied"
  /\ chatHistory[Len(chatHistory)].role = "user"

====
